---- MODULE Spec2Model ----
(***************************************************************************)
(* A model of the retrieval and conversation core of PIKE-RAG's web app:   *)
(*   - the chunkers  DocumentProcessorLite.chunk_text  and                 *)
(*     DocumentProcessor._split_text_into_chunks,                          *)
(*   - DocumentProcessorLite.search_documents,                             *)
(*   - ConversationManager (sessions, cache, session files),               *)
(*   - document ingestion (process_document, process_uploaded_file,        *)
(*     get_embeddings) and search_knowledge_base over the vector index,    *)
(*   - ReasoningStrategyManager and the three reasoning strategies,        *)
(*   - the request handlers ask_question of app_enhanced.py and           *)
(*     app_railway_full.py.                                                *)
(* Each part has its own specification over the shared variables; the      *)
(* variables of the other parts stay at their initial values.              *)
(***************************************************************************)
EXTENDS Integers, Sequences, FiniteSets, TLC

VARIABLES
    \* ---- chunker: one call of chunk_text / _split_text_into_chunks
    impl,        \* "lite" (document_processor_lite.py) or "full" (document_processor.py)
    text,        \* the argument text, a sequence of characters
    chunk_size,  \* the argument chunk_size
    overlap,     \* the argument overlap
    start,       \* the local variable start
    chunks,      \* the local list chunks (the result once cpc = "done")
    wins,        \* history: one record per loop iteration (the window it cut)
    cpc,         \* "call" | "loop" | "done" | "raised"
    \* ---- search: DocumentProcessorLite.search_documents
    chroma_client,  \* TRUE when self.chroma_client is set (initialize_chroma succeeded)
    openai_client,  \* "none" (self.openai_client is None) | "ok" | "raises"
    index,          \* the collections in list_collections() order, each a list of entries
    sret,           \* the last search_documents call: its arguments, result and history
    \* ---- ConversationManager
    heap,        \* the ConversationSession objects: object id -> field values
    cache,       \* self._active_sessions: session id -> object id (NoObj: no key)
    disk,        \* sessions_dir: session id -> the content of <session id>.json
    clock,       \* the reading datetime.now() returns next
    wk,          \* per worker (request thread): the call it is in and its locals
    ret,         \* the last call that returned: operation, arguments, value
    calls,       \* number of state-changing calls started (bounded by MaxCalls)
    faults,      \* number of storage faults so far (bounded by MaxFaults)
    active,      \* the workers that serve requests in this run
    stamped,     \* history: per session, the messages add_message appended, in order
    acked,       \* history: per session, the messages whose add_message returned True
    persisted,   \* history: per session, the session the last completed save wrote
    \* ---- ingestion: process_document / process_uploaded_file, and the index
    proc,        \* "lite" (DocumentProcessorLite) or "full" (DocumentProcessor)
    store,       \* the index: collection name -> its entries, or NoCollection
    second,      \* the clock second datetime.now() is in
    uuids,       \* number of uuid4 values drawn so far
    iret,        \* the last call that returned: operation, arguments, value
    ingests,     \* number of ingestions so far (bounded by MaxIngests)
    \* ---- ReasoningStrategyManager.process_with_strategy
    dret,        \* the last call: arguments, value, calls made to the completion service
    \* ---- the request handlers  ask_question
    aret         \* the last request: its body, what it handed on, its response

chunkVars == <<impl, text, chunk_size, overlap, start, chunks, wins, cpc>>
searchVars == <<chroma_client, openai_client, index, sret>>
sessVars == <<heap, cache, disk, clock, wk, ret, calls, faults, active,
              stamped, acked, persisted>>
ingVars == <<proc, store, second, uuids, iret, ingests>>
dispVars == <<dret, aret>>
vars == <<chunkVars, searchVars, sessVars, ingVars, dispVars>>

Max(a, b) == IF a >= b THEN a ELSE b
Min(a, b) == IF a <= b THEN a ELSE b

(***************************************************************************)
(* Bounds of the model.                                                    *)
(***************************************************************************)
MaxLen == 5
MaxChunk == 3
\* the loop is cut off after this many iterations (a run that terminates
\* needs at most Len(text) of them when start advances)
MaxWindows == MaxLen + 1
\* search: collections in the index, entries per collection, largest n_results
MaxColls == 2
MaxEntries == 2
MaxK == 2
\* the distances an entry can have to the query embedding (score = 1 - distance)
Dists == {0, 1}
\* sessions: state-changing calls per run, storage faults per run
MaxCalls == 2
MaxFaults == 1
\* the session ids in use (uuid4 values, or ids a caller passes)
SessionIds == {"s1", "s2"}
\* the request threads
Workers == {1, 2}

\* "\\" is the backslash and "n" the letter n: both are in the lite
\* chunker's terminator string '.!?\\n'
Alphabet == {"a", " ", ".", "n"}

RECURSIVE SeqsUpTo(_, _)
SeqsUpTo(S, n) ==
    IF n = 0 THEN {<<>>}
    ELSE LET shorter == SeqsUpTo(S, n - 1)
         IN  shorter \cup {Append(s, c) : s \in {x \in shorter : Len(x) = n - 1}, c \in S}

(***************************************************************************)
(* Python's string operations, on 0-based indices.                         *)
(***************************************************************************)
\* str.strip() removes these (the only whitespace of Alphabet)
Whitespace == {" "}

\* the bounds a slice t[lo:hi] is normalised to
SliceBound(t, i) ==
    IF i < 0 THEN Max(i + Len(t), 0) ELSE Min(i, Len(t))

\* t[lo:hi]
PySlice(t, lo, hi) ==
    LET a == SliceBound(t, lo)
        b == SliceBound(t, hi)
    IN  IF a >= b THEN <<>> ELSE SubSeq(t, a + 1, b)

\* t[i] for an index in range (a negative index counts from the end)
PyIndexOk(t, i) == i < Len(t) /\ i >= -Len(t)
PyIndex(t, i) == IF i >= 0 THEN t[i + 1] ELSE t[i + Len(t) + 1]

\* the number of leading / trailing whitespace characters of s
RECURSIVE LeadWs(_)
LeadWs(s) ==
    IF s = <<>> \/ Head(s) \notin Whitespace THEN 0 ELSE 1 + LeadWs(Tail(s))

RECURSIVE TrailWs(_)
TrailWs(s) ==
    IF s = <<>> \/ s[Len(s)] \notin Whitespace THEN 0
    ELSE 1 + TrailWs(SubSeq(s, 1, Len(s) - 1))

\* s.strip()
Strip(s) ==
    IF LeadWs(s) = Len(s) THEN <<>>
    ELSE SubSeq(s, LeadWs(s) + 1, Len(s) - TrailWs(s))

(***************************************************************************)
(* The chunkers.                                                           *)
(***************************************************************************)
\* the characters of the membership test  text[i] in '...'
Terminators(im) ==
    IF im = "lite" THEN {".", "!", "?", "\\", "n"} ELSE {".", "!", "?"}

\* the literal in  max(start + chunk_size - 100, start)
ScanBackLite == 100
ScanBackFull == 200
ScanBack(im) == IF im = "lite" THEN ScanBackLite ELSE ScanBackFull

\* for i in range(end, max(start + chunk_size - N, start), -1):
\*     if text[i] in '...': end = i + 1; break
\* The result is the new end; raised is set when text[i] is evaluated for
\* an index that is out of range (IndexError).
\* The loop stops at the largest index of i, i - 1, ..., lower + 1 that is
\* out of range or holds a terminator.
ScanFrom(im, t, i, lower, end) ==
    LET stops == {k \in (lower + 1)..i :
                     ~PyIndexOk(t, k) \/ PyIndex(t, k) \in Terminators(im)}
    IN  IF stops = {} THEN [raised |-> FALSE, end |-> end]
        ELSE LET k == CHOOSE x \in stops : \A y \in stops : y <= x
             IN  IF ~PyIndexOk(t, k) THEN [raised |-> TRUE, end |-> end]
                 ELSE [raised |-> FALSE, end |-> k + 1]

\* the end of the window that starts at s: start + chunk_size, moved to a
\* sentence boundary when it falls before the end of the text
WindowEnd(im, t, s, cs) ==
    LET end == s + cs
    IN  IF end < Len(t)
        THEN ScanFrom(im, t, end, Max(s + cs - ScanBack(im), s), end)
        ELSE [raised |-> FALSE, end |-> end]

\* the value of start after a window [s, end)
NextStart(im, t, end, ov) ==
    IF im = "lite" THEN end - ov
    ELSE IF end < Len(t) THEN end - ov ELSE Len(t)

\* whether the loop is left after start was set to s
LoopExit(t, s) == ~(s < Len(t))

\* the record kept of one iteration
Window(t, s, end) ==
    LET raw == PySlice(t, s, end)
        lo  == SliceBound(t, s)
    IN  [s     |-> s,
         e     |-> end,
         lo    |-> lo,                      \* the slice taken is [lo, hi)
         hi    |-> Max(lo, SliceBound(t, end)),
         chunk |-> Strip(raw),
         a     |-> lo + LeadWs(raw),        \* the chunk's first position
         kept  |-> Strip(raw) # <<>>]

(***************************************************************************)
(* ConversationManager: the data.  A timestamp is a reading of the clock    *)
(* (standing for its ISO string), a dict is the set of its <<key, value>>  *)
(* pairs, and context_summary is a record (kind "empty" is the string ""). *)
(***************************************************************************)
NoObj == 0
ObjIds == 1..(Cardinality(SessionIds) + Cardinality(Workers))

\* Python's None where a session is expected; also an unused heap slot
NoSession == [none |-> TRUE]

EmptyDict == {}
NoSummary == [kind |-> "empty", n |-> 0, words |-> {}]

\* the literal in  if len(session.messages) > 10  and in
\* _update_context_summary
SummaryThreshold == 10
\* the literal in  session.messages[-10:]  of get_context_for_llm
ContextWindow == 10

\* the message contents of the model, with len(content) and the words w of
\* content.lower().split() that have len(w) > 4 and w.isalpha()
Question == "What is X?"
Answer == "X is Y."
LongQuestion == "Explain the retrieval pipeline"
ContentLen(c) ==
    CASE c = Question -> 10
      [] c = Answer -> 7
      [] c = LongQuestion -> 30
LongAlphaWords(c) ==
    IF c = LongQuestion THEN <<"explain", "retrieval", "pipeline">> ELSE <<>>

\* the arguments (role, content, metadata) of the add_message calls
AddInputs ==
    << [role |-> "user", content |-> Question, metadata |-> EmptyDict],
       [role |-> "assistant", content |-> Answer,
        metadata |-> {<<"reasoning_strategy", "generation">>}],
       [role |-> "user", content |-> LongQuestion, metadata |-> EmptyDict] >>

\* the arguments (reasoning_strategy, knowledge_base) of create_session
CreateArgs == {<<"generation", "documents">>, <<"self_ask", "papers">>}
\* ... and of update_session_settings ("" stands for None: not given)
UpdateArgs == {<<"atomic_decomposition", "">>}

\* seq[-n:] for n > 0
LastN(seq, n) == SubSeq(seq, Max(1, Len(seq) - n + 1), Len(seq))

Range(f) == {f[x] : x \in DOMAIN f}

NewSession(sid, now, rs, kb) ==
    [session_id |-> sid, created_at |-> now, last_updated |-> now,
     messages |-> <<>>, context_summary |-> NoSummary,
     reasoning_strategy |-> rs, knowledge_base |-> kb, metadata |-> EmptyDict]

\* recent_topics of _update_context_summary for the messages ms
RECURSIVE RecentTopics(_)
RecentTopics(ms) ==
    IF ms = <<>> THEN <<>>
    ELSE LET m == Head(ms)
             kw == IF m.role = "user" /\ ContentLen(m.content) > 20
                   THEN SubSeq(LongAlphaWords(m.content), 1,
                               Min(3, Len(LongAlphaWords(m.content))))
                   ELSE <<>>
         IN  kw \o RecentTopics(Tail(ms))

\* _update_context_summary(session).  list(set(recent_topics))[:5] is the
\* set of the topics when there are at most 5 of them (the contents of the
\* model have 3); the order in which they are joined is not modelled.
UpdateContextSummary(sv) ==
    IF Len(sv.messages) <= SummaryThreshold THEN sv
    ELSE LET topics == RecentTopics(LastN(sv.messages, 10))
         IN  IF topics # <<>>
             THEN [sv EXCEPT !.context_summary =
                      [kind |-> "topics", n |-> 0, words |-> Range(topics)]]
             ELSE [sv EXCEPT !.context_summary =
                      [kind |-> "count", n |-> Len(sv.messages), words |-> {}]]

\* add_message, lines 84-96: the message is built (timestamp t1) and
\* appended, last_updated is set (t2), the summary is updated
AppendMessage(sv, inp, t1, t2) ==
    LET message == [role |-> inp.role, content |-> inp.content, timestamp |-> t1,
                    metadata |-> IF inp.metadata # EmptyDict THEN inp.metadata
                                 ELSE EmptyDict]
        appended == [sv EXCEPT !.messages = Append(@, message), !.last_updated = t2]
    IN  IF Len(appended.messages) > SummaryThreshold
        THEN UpdateContextSummary(appended)
        ELSE appended

\* get_context_for_llm with a window of one message more
ContextForLlmWiderWindow(sv, include_summary) ==
    LET head == IF include_summary /\ sv.context_summary.kind # "empty"
                THEN <<[role |-> "system",
                        content |-> <<"Previous conversation summary: ",
                                      sv.context_summary>>]>>
                ELSE <<>>
        recent == LastN(sv.messages, ContextWindow + 1)
    IN  head \o [i \in 1..Len(recent) |->
                   [role |-> recent[i].role, content |-> recent[i].content]]

\* get_context_for_llm, lines 116-133, for the session sv
ContextForLlm(sv, include_summary) ==
    LET head == IF include_summary /\ sv.context_summary.kind # "empty"
                THEN <<[role |-> "system",
                        content |-> <<"Previous conversation summary: ",
                                      sv.context_summary>>]>>
                ELSE <<>>
        recent == LastN(sv.messages, ContextWindow)
    IN  head \o [i \in 1..Len(recent) |->
                   [role |-> recent[i].role, content |-> recent[i].content]]

\* get_conversation_history, line 108
HistoryOf(sv, limit) == IF limit > 0 THEN LastN(sv.messages, limit) ELSE sv.messages

(***************************************************************************)
(* Session files.                                                          *)
(***************************************************************************)
NoFile == [kind |-> "absent"]
\* a file opened with 'w' into which nothing was written yet
EmptyFile == [kind |-> "empty"]
\* a file whose json.dump was interrupted: a prefix of a JSON document
PartialFile == [kind |-> "partial"]
JsonFile(d) == [kind |-> "json", data |-> d]

\* ConversationMessage.to_dict / ConversationSession.to_dict
MessageToDict(m) ==
    [role |-> m.role, content |-> m.content, timestamp |-> m.timestamp,
     metadata |-> m.metadata]
\* to_dict without the metadata of the messages
ToDictNoMessageMetadata(sv) ==
    [session_id |-> sv.session_id, created_at |-> sv.created_at,
     last_updated |-> sv.last_updated,
     messages |-> [i \in 1..Len(sv.messages) |->
                     [role |-> sv.messages[i].role, content |-> sv.messages[i].content,
                      timestamp |-> sv.messages[i].timestamp]],
     context_summary |-> sv.context_summary,
     reasoning_strategy |-> sv.reasoning_strategy,
     knowledge_base |-> sv.knowledge_base, metadata |-> sv.metadata]

ToDict(sv) ==
    [session_id |-> sv.session_id, created_at |-> sv.created_at,
     last_updated |-> sv.last_updated,
     messages |-> [i \in 1..Len(sv.messages) |-> MessageToDict(sv.messages[i])],
     context_summary |-> sv.context_summary,
     reasoning_strategy |-> sv.reasoning_strategy,
     knowledge_base |-> sv.knowledge_base, metadata |-> sv.metadata]

\* dict.get(key, default)
Get(d, key, default) == IF key \in DOMAIN d THEN d[key] ELSE default

\* _load_session for the file f: None when the file is absent, is not a
\* JSON document (json.load raises) or lacks a required key (KeyError)
LoadSession(f) ==
    IF f.kind # "json" THEN NoSession
    ELSE LET d == f.data
             ms == Get(d, "messages", <<>>)
         IN  IF \/ ~({"session_id", "created_at", "last_updated"} \subseteq DOMAIN d)
                \/ \E i \in 1..Len(ms) :
                      ~({"role", "content", "timestamp"} \subseteq DOMAIN ms[i])
             THEN NoSession
             ELSE [session_id |-> d.session_id, created_at |-> d.created_at,
                   last_updated |-> d.last_updated,
                   messages |-> [i \in 1..Len(ms) |->
                                   [role |-> ms[i].role, content |-> ms[i].content,
                                    timestamp |-> ms[i].timestamp,
                                    metadata |-> Get(ms[i], "metadata", EmptyDict)]],
                   context_summary |-> Get(d, "context_summary", NoSummary),
                   reasoning_strategy |-> Get(d, "reasoning_strategy", "generation"),
                   knowledge_base |-> Get(d, "knowledge_base", "documents"),
                   metadata |-> Get(d, "metadata", EmptyDict)]

\* the file after _save_session(sv): written, or left as it was when open()
\* raises, or a partial document when json.dump raises
SavedFile(old, sv, outcome) ==
    CASE outcome = "ok" -> JsonFile(ToDict(sv))
      [] outcome = "open_fails" -> old
      [] outcome = "dump_fails" -> PartialFile

\* the entry list_sessions makes for a loaded session
ListEntry(sv) ==
    [session_id |-> sv.session_id, created_at |-> sv.created_at,
     last_updated |-> sv.last_updated, message_count |-> Len(sv.messages),
     reasoning_strategy |-> sv.reasoning_strategy,
     knowledge_base |-> sv.knowledge_base]

\* sessions.sort(key=lambda x: x['last_updated'], reverse=True)
RECURSIVE SortByLastUpdatedDesc(_)
SortByLastUpdatedDesc(es) ==
    IF es = <<>> THEN <<>>
    ELSE LET rest == SortByLastUpdatedDesc(SubSeq(es, 1, Len(es) - 1))
             x    == es[Len(es)]
             k    == Cardinality({i \in 1..Len(rest) : rest[i].last_updated >= x.last_updated})
         IN  SubSeq(rest, 1, k) \o <<x>> \o SubSeq(rest, k + 1, Len(rest))

\* a listing that ends at the first file that does not load
RECURSIVE LoadedEntriesUntilCorrupt(_, _)
LoadedEntriesUntilCorrupt(d, names) ==
    IF names = <<>> THEN <<>>
    ELSE LET sv == LoadSession(d[Head(names)])
         IN  IF d[Head(names)].kind = "absent"
             THEN LoadedEntriesUntilCorrupt(d, Tail(names))
             ELSE IF sv = NoSession THEN <<>>
             ELSE <<ListEntry(sv)>> \o LoadedEntriesUntilCorrupt(d, Tail(names))

\* list_sessions when os.listdir returns the files in the order names
RECURSIVE LoadedEntries(_, _)
LoadedEntries(d, names) ==
    IF names = <<>> THEN <<>>
    ELSE LET sv == LoadSession(d[Head(names)])
         IN  (IF d[Head(names)].kind = "absent" \/ sv = NoSession
              THEN <<>> ELSE <<ListEntry(sv)>>)
             \o LoadedEntries(d, Tail(names))
ListSessionsOf(d, names) == SortByLastUpdatedDesc(LoadedEntries(d, names))

\* the orders in which os.listdir can return the session files
ListdirOrders == {<<"s1", "s2">>, <<"s2", "s1">>}

\* a session that earlier add_message calls left in a file: n messages,
\* user questions and assistant answers in turn
SeedLen == SummaryThreshold
RECURSIVE Seeded(_, _)
Seeded(sid, n) ==
    IF n = 0 THEN NewSession(sid, 0, "generation", "documents")
    ELSE AppendMessage(Seeded(sid, n - 1), AddInputs[IF n % 2 = 1 THEN 1 ELSE 2],
                       2 * n - 1, 2 * n)
ClockStart == 2 * SeedLen + 1

\* the timestamps of the messages of a session (none for None)
Stamps(sv) ==
    IF sv = NoSession THEN <<>>
    ELSE [i \in 1..Len(sv.messages) |-> sv.messages[i].timestamp]

(***************************************************************************)
(* The object heap.  Objects no dict entry and no local refers to are      *)
(* collected.                                                              *)
(***************************************************************************)
Alloc(h) == CHOOSE o \in ObjIds : h[o] = NoSession /\ \A p \in ObjIds : p < o => h[p] # NoSession

Collect(h, c, w) ==
    [o \in ObjIds |->
        IF (\E s \in SessionIds : c[s] = o) \/ (\E x \in Workers : w[x].obj = o)
        THEN h[o] ELSE NoSession]

\* get_session that does not consult the cache
ResolveFromStorage(sid) ==
    LET sv == LoadSession(disk[sid])
    IN  IF sv = NoSession
        THEN [found |-> FALSE, obj |-> NoObj, heap |-> heap, cache |-> cache]
        ELSE [found |-> TRUE, obj |-> Alloc(heap),
              heap |-> [heap EXCEPT ![Alloc(heap)] = sv],
              cache |-> [cache EXCEPT ![sid] = Alloc(heap)]]

\* get_session(sid): the object it returns (NoObj for None) and the heap and
\* cache it leaves
Resolve(sid) ==
    IF cache[sid] # NoObj
    THEN [found |-> TRUE, obj |-> cache[sid], heap |-> heap, cache |-> cache]
    ELSE LET sv == LoadSession(disk[sid])
         IN  IF sv = NoSession
             THEN [found |-> FALSE, obj |-> NoObj, heap |-> heap, cache |-> cache]
             ELSE [found |-> TRUE, obj |-> Alloc(heap),
                   heap |-> [heap EXCEPT ![Alloc(heap)] = sv],
                   cache |-> [cache EXCEPT ![sid] = Alloc(heap)]]

WkIdle == [pc |-> "idle", sid |-> "", inp |-> 0, obj |-> NoObj, stamp |-> 0,
           hit |-> FALSE, file |-> NoFile]
NoRet == [op |-> "none"]

SessIdle ==
    /\ heap = [o \in ObjIds |-> NoSession]
    /\ cache = [s \in SessionIds |-> NoObj]
    /\ disk = [s \in SessionIds |-> NoFile]
    /\ clock = ClockStart
    /\ wk = [w \in Workers |-> WkIdle]
    /\ ret = NoRet
    /\ calls = 0
    /\ faults = 0
    /\ active = {}
    /\ stamped = [s \in SessionIds |-> <<>>]
    /\ acked = [s \in SessionIds |-> {}]
    /\ persisted = [s \in SessionIds |-> NoSession]

NoCall == [op |-> "none"]

IngIdle ==
    /\ proc = "lite"
    /\ store = <<>>
    /\ second = 0
    /\ uuids = 0
    /\ iret = NoCall
    /\ ingests = 0

DispIdle == dret = NoCall /\ aret = NoCall

NoSearch == [called |-> FALSE]

SearchIdle ==
    /\ chroma_client = FALSE
    /\ openai_client = "none"
    /\ index = <<>>
    /\ sret = NoSearch

ChunkIdle ==
    /\ impl = "lite"
    /\ text = <<>>
    /\ chunk_size = 1
    /\ overlap = 0
    /\ start = 0
    /\ chunks = <<>>
    /\ wins = <<>>
    /\ cpc = "idle"

ChunkInit ==
    /\ impl \in {"lite", "full"}
    /\ text \in SeqsUpTo(Alphabet, MaxLen)
    /\ chunk_size \in 1..MaxChunk
    /\ overlap \in 0..(chunk_size - 1)
    /\ start = 0
    /\ chunks = <<>>
    /\ wins = <<>>
    /\ cpc = "call"
    /\ SearchIdle
    /\ SessIdle
    /\ IngIdle
    /\ DispIdle

\* the code before the loop
ChunkEnter ==
    /\ cpc = "call"
    /\ IF impl = "lite" /\ Len(text) <= chunk_size
       THEN /\ chunks' = <<text>>
            /\ cpc' = "done"
       ELSE IF impl = "full" /\ text = <<>>
       THEN /\ chunks' = <<>>
            /\ cpc' = "done"
       ELSE /\ chunks' = <<>>
            /\ cpc' = IF LoopExit(text, 0) THEN "done" ELSE "loop"
    /\ start' = 0
    /\ UNCHANGED <<impl, text, chunk_size, overlap, wins>>
    /\ UNCHANGED <<searchVars, sessVars, ingVars, dispVars>>

\* one iteration of  while start < len(text)
ChunkIter ==
    /\ cpc = "loop"
    /\ Len(wins) < MaxWindows
    /\ LET scan == WindowEnd(impl, text, start, chunk_size)
           end  == scan.end
       IN  IF scan.raised
           THEN /\ cpc' = "raised"
                /\ UNCHANGED <<start, chunks, wins>>
           ELSE LET w == Window(text, start, end)
                    s == NextStart(impl, text, end, overlap)
                IN  /\ wins' = Append(wins, w)
                    /\ chunks' = IF w.kept THEN Append(chunks, w.chunk) ELSE chunks
                    /\ start' = s
                    /\ cpc' = IF LoopExit(text, s) THEN "done" ELSE "loop"
    /\ UNCHANGED <<impl, text, chunk_size, overlap>>
    /\ UNCHANGED <<searchVars, sessVars, ingVars, dispVars>>

ChunkNext == ChunkEnter \/ ChunkIter

(***************************************************************************)
(* The chunkers on a document of 2500 characters with the default          *)
(* arguments, as process_document and process_uploaded_file call them.     *)
(***************************************************************************)
\* chunk_size: int = 1000, overlap: int = 200
DefaultChunkSize == 1000
DefaultOverlap == 200

\* the offsets at which the document may have a '.': inside and outside of
\* the ranges the two chunkers scan for a sentence end
TerminatorSites == {850, 950, 1000, 1650, 1750, 2450}

\* the document with a '.' at the offsets of sites and a letter elsewhere
DocumentWith(sites) ==
    [i \in 1..2500 |-> IF (i - 1) \in sites THEN "." ELSE "a"]

ScenarioAInit ==
    /\ impl \in {"lite", "full"}
    /\ text \in {DocumentWith(sites) : sites \in SUBSET TerminatorSites}
    /\ chunk_size = DefaultChunkSize
    /\ overlap = DefaultOverlap
    /\ start = 0
    /\ chunks = <<>>
    /\ wins = <<>>
    /\ cpc = "call"
    /\ SearchIdle
    /\ SessIdle
    /\ IngIdle
    /\ DispIdle

(***************************************************************************)
(* search_documents.  An entry of the index is [id, dist]: id names the    *)
(* stored chunk (its document and metadata), dist is the distance the      *)
(* index computes between the entry and the query embedding.               *)
(***************************************************************************)
SearchInit ==
    /\ chroma_client \in BOOLEAN
    /\ openai_client \in {"none", "ok", "raises"}
    /\ \E n \in 0..MaxColls :
         \E ds \in [1..n -> UNION {[1..m -> Dists] : m \in 0..MaxEntries}] :
            index = [c \in 1..n |->
                       [j \in 1..Len(ds[c]) |-> [id |-> <<c, j>>, dist |-> ds[c][j]]]]
    /\ sret = NoSearch
    /\ ChunkIdle
    /\ SessIdle
    /\ IngIdle
    /\ DispIdle

\* get_embeddings(texts): the number of calls made to
\* openai_client.embeddings.create, and whether the vectors returned are the
\* service's or the zero vectors (no client, or a call raised)
GetEmbeddings(client, n) ==
    IF client = "none" THEN [calls |-> 0, vectors |-> [i \in 1..n |-> "zero"]]
    ELSE IF client = "raises" THEN [calls |-> Min(n, 1), vectors |-> [i \in 1..n |-> "zero"]]
    ELSE [calls |-> n, vectors |-> [i \in 1..n |-> "embedding"]]

\* the entries of a list ordered by distance, nearest first
RECURSIVE NearestFirst(_)
NearestFirst(es) ==
    IF es = <<>> THEN <<>>
    ELSE LET rest == NearestFirst(SubSeq(es, 1, Len(es) - 1))
             x    == es[Len(es)]
             k    == Cardinality({i \in 1..Len(rest) : rest[i].dist <= x.dist})
         IN  SubSeq(rest, 1, k) \o <<x>> \o SubSeq(rest, k + 1, Len(rest))

\* collection.query(query_embeddings=[q], n_results=n): the n nearest entries
CollectionQuery(coll, n) == SubSeq(NearestFirst(coll), 1, Min(n, Len(coll)))

\* the items appended to all_results for one collection's query results
Scored(res) ==
    [i \in 1..Len(res) |-> [content |-> res[i].id, score |-> 1 - res[i].dist]]

\* all_results after the loop over the first n collections
RECURSIVE Merged(_, _, _)
Merged(idx, n, k) ==
    IF n = 0 THEN <<>>
    ELSE Merged(idx, n - 1, k)
         \o Scored(CollectionQuery(idx[n], Min(k, Len(idx[n]))))

\* a descending sort that puts an item before the items of equal score
\* that precede it (what sorting ascending and reversing would do)
RECURSIVE SortByScoreDescUnstable(_)
SortByScoreDescUnstable(rs) ==
    IF rs = <<>> THEN <<>>
    ELSE LET rest == SortByScoreDescUnstable(SubSeq(rs, 1, Len(rs) - 1))
             x    == rs[Len(rs)]
             k    == Cardinality({i \in 1..Len(rest) : rest[i].score > x.score})
         IN  SubSeq(rest, 1, k) \o <<x>> \o SubSeq(rest, k + 1, Len(rest))

\* all_results.sort(key=lambda x: x['score'], reverse=True): list.sort is
\* stable, also with reverse=True
RECURSIVE SortByScoreDesc(_)
SortByScoreDesc(rs) ==
    IF rs = <<>> THEN <<>>
    ELSE LET rest == SortByScoreDesc(SubSeq(rs, 1, Len(rs) - 1))
             x    == rs[Len(rs)]
             k    == Cardinality({i \in 1..Len(rest) : rest[i].score >= x.score})
         IN  SubSeq(rest, 1, k) \o <<x>> \o SubSeq(rest, k + 1, Len(rest))

\* all_results[:n_results]
Truncate(rs, k) == SubSeq(rs, 1, Min(k, Len(rs)))

NotAvailable == <<[content |-> "Document search not available - ChromaDB not initialized",
                   score |-> 1]>>
SearchError == <<[content |-> "Search error", score |-> 0]>>

\* search_documents(query, n_results = k).  failAt = c > 0: the index raises
\* while collection c is fetched or queried (the except branch is taken);
\* a query for n_results = 0 (k = 0 or an empty collection) is an error of
\* the index or returns nothing, as the index decides (zeroRaises).
SearchDocuments(k, failAt, zeroRaises) ==
    /\ IF ~chroma_client
       THEN sret' = [called |-> TRUE, k |-> k, raised |-> FALSE, available |-> FALSE,
                     fail_at |-> 0, gateway_calls |-> 0, embed_calls |-> 0,
                     merged |-> <<>>, results |-> NotAvailable]
       ELSE LET emb == GetEmbeddings(openai_client, 1)
                zeroAt == {c \in 1..Len(index) : Min(k, Len(index[c])) = 0}
                raises == failAt > 0 \/ (zeroRaises /\ zeroAt # {})
                merged == Merged(index, Len(index), k)
            IN  sret' = [called |-> TRUE, k |-> k, raised |-> raises, available |-> TRUE,
                         fail_at |-> failAt, gateway_calls |-> 1, embed_calls |-> emb.calls,
                         merged |-> IF raises THEN <<>> ELSE merged,
                         results |-> IF raises THEN SearchError
                                     ELSE Truncate(SortByScoreDesc(merged), k)]
    /\ UNCHANGED <<chroma_client, openai_client, index>>
    /\ UNCHANGED <<chunkVars, sessVars, ingVars, dispVars>>

SearchNext ==
    \E k \in 0..MaxK, failAt \in 0..Len(index), zeroRaises \in BOOLEAN :
        SearchDocuments(k, failAt, zeroRaises)

(***************************************************************************)
(* ConversationManager: the operations.  add_message is modelled step by   *)
(* step (its steps interleave with those of other request threads); the    *)
(* other operations are one step each.                                     *)
(***************************************************************************)
SeqInit ==
    /\ heap = [o \in ObjIds |-> NoSession]
    /\ cache = [s \in SessionIds |-> NoObj]
    /\ \E f1 \in {JsonFile(ToDict(Seeded("s1", 0))),
                  JsonFile(ToDict(Seeded("s1", SeedLen)))},
          f2 \in {NoFile, PartialFile} :
            disk = [s \in SessionIds |-> IF s = "s1" THEN f1 ELSE f2]
    /\ clock = ClockStart
    /\ wk = [w \in Workers |-> WkIdle]
    /\ ret = NoRet
    /\ calls = 0
    /\ faults = 0
    /\ active = {1}
    /\ stamped = [s \in SessionIds |-> Stamps(LoadSession(disk[s]))]
    /\ acked = [s \in SessionIds |-> Range(Stamps(LoadSession(disk[s])))]
    /\ persisted = [s \in SessionIds |-> LoadSession(disk[s])]
    /\ ChunkIdle
    /\ SearchIdle
    /\ IngIdle
    /\ DispIdle

\* two request threads on a reliable store (no storage faults)
ConcInit ==
    /\ heap = [o \in ObjIds |-> NoSession]
    /\ cache = [s \in SessionIds |-> NoObj]
    /\ \E n \in 0..1 :
          disk = [s \in SessionIds |->
                    IF s = "s1" THEN JsonFile(ToDict(Seeded("s1", n))) ELSE NoFile]
    /\ clock = ClockStart
    /\ wk = [w \in Workers |-> WkIdle]
    /\ ret = NoRet
    /\ calls = 0
    /\ faults = MaxFaults
    /\ active = Workers
    /\ stamped = [s \in SessionIds |-> Stamps(LoadSession(disk[s]))]
    /\ acked = [s \in SessionIds |-> Range(Stamps(LoadSession(disk[s])))]
    /\ persisted = [s \in SessionIds |-> LoadSession(disk[s])]
    /\ ChunkIdle
    /\ SearchIdle
    /\ IngIdle
    /\ DispIdle

Idle(w) == w \in active /\ wk[w].pc = "idle"
\* a storage fault may happen while the run has faults left
MayFail(outcome) == outcome = "ok" \/ faults < MaxFaults
Faults(outcome) == IF outcome = "ok" THEN faults ELSE faults + 1
\* what the last completed save of a session wrote, after a save with this outcome
Persisted(old, sv, outcome) ==
    CASE outcome = "ok" -> sv
      [] outcome = "open_fails" -> old
      [] outcome = "dump_fails" -> NoSession

\* create_session(reasoning_strategy, knowledge_base); sid is the new uuid
CreateSession(w, sid, rs, kb, outcome) ==
    /\ Idle(w) /\ calls < MaxCalls /\ MayFail(outcome)
    /\ cache[sid] = NoObj /\ disk[sid] = NoFile
    /\ LET sv == NewSession(sid, clock, rs, kb)
           o  == Alloc(heap)
       IN  /\ cache' = [cache EXCEPT ![sid] = o]
           /\ heap' = Collect([heap EXCEPT ![o] = sv], cache', wk)
           /\ disk' = [disk EXCEPT ![sid] = SavedFile(@, sv, outcome)]
           /\ persisted' = [persisted EXCEPT ![sid] = Persisted(@, sv, outcome)]
    /\ clock' = clock + 1
    /\ stamped' = [stamped EXCEPT ![sid] = <<>>]
    /\ acked' = [acked EXCEPT ![sid] = {}]
    /\ ret' = [op |-> "create_session", sid |-> sid, value |-> sid]
    /\ calls' = calls + 1
    /\ faults' = Faults(outcome)
    /\ UNCHANGED <<wk, active>>
    /\ UNCHANGED <<chunkVars, searchVars, ingVars, dispVars>>

\* get_session(sid)
GetSession(w, sid) ==
    /\ Idle(w)
    /\ LET r == Resolve(sid)
       IN  /\ cache' = r.cache
           /\ heap' = Collect(r.heap, cache', wk)
           /\ ret' = [op |-> "get_session", sid |-> sid, found |-> r.found,
                      was_cached |-> cache[sid] # NoObj, file_before |-> disk[sid],
                      cached_before |-> IF cache[sid] # NoObj THEN heap[cache[sid]]
                                        ELSE NoSession,
                      value |-> IF r.found THEN r.heap[r.obj] ELSE NoSession]
    /\ UNCHANGED <<disk, clock, wk, calls, faults, active, stamped, acked, persisted>>
    /\ UNCHANGED <<chunkVars, searchVars, ingVars, dispVars>>

\* get_context_for_llm(sid, include_summary)
GetContextForLlm(w, sid, include_summary) ==
    /\ Idle(w)
    /\ LET r == Resolve(sid)
       IN  /\ cache' = r.cache
           /\ heap' = Collect(r.heap, cache', wk)
           /\ ret' = [op |-> "get_context_for_llm", sid |-> sid, found |-> r.found,
                      include_summary |-> include_summary, file_before |-> disk[sid],
                      was_cached |-> cache[sid] # NoObj,
                      value |-> IF r.found
                                THEN ContextForLlm(r.heap[r.obj], include_summary)
                                ELSE <<>>]
    /\ UNCHANGED <<disk, clock, wk, calls, faults, active, stamped, acked, persisted>>
    /\ UNCHANGED <<chunkVars, searchVars, ingVars, dispVars>>

\* get_conversation_history(sid, limit)
GetConversationHistory(w, sid, limit) ==
    /\ Idle(w)
    /\ LET r == Resolve(sid)
       IN  /\ cache' = r.cache
           /\ heap' = Collect(r.heap, cache', wk)
           /\ ret' = [op |-> "get_conversation_history", sid |-> sid, found |-> r.found,
                      limit |-> limit, file_before |-> disk[sid],
                      was_cached |-> cache[sid] # NoObj,
                      value |-> IF r.found THEN HistoryOf(r.heap[r.obj], limit) ELSE <<>>]
    /\ UNCHANGED <<disk, clock, wk, calls, faults, active, stamped, acked, persisted>>
    /\ UNCHANGED <<chunkVars, searchVars, ingVars, dispVars>>

\* update_session_settings(sid, reasoning_strategy, knowledge_base)
UpdateSessionSettings(w, sid, rs, kb, outcome) ==
    /\ Idle(w) /\ calls < MaxCalls /\ MayFail(outcome)
    /\ LET r == Resolve(sid)
       IN  IF ~r.found
           THEN /\ outcome = "ok"
                /\ ret' = [op |-> "update_session_settings", sid |-> sid, found |-> FALSE,
                           was_cached |-> cache[sid] # NoObj,
                           file_before |-> disk[sid], value |-> FALSE]
                /\ UNCHANGED <<heap, cache, disk, clock, faults, persisted>>
           ELSE LET old == r.heap[r.obj]
                    sv  == [old EXCEPT
                              !.reasoning_strategy = IF rs # "" THEN rs ELSE @,
                              !.knowledge_base = IF kb # "" THEN kb ELSE @,
                              !.last_updated = clock]
                IN  /\ cache' = r.cache
                    /\ heap' = Collect([r.heap EXCEPT ![r.obj] = sv], cache', wk)
                    /\ disk' = [disk EXCEPT ![sv.session_id] = SavedFile(@, sv, outcome)]
                    /\ persisted' = [persisted EXCEPT
                                       ![sv.session_id] = Persisted(@, sv, outcome)]
                    /\ clock' = clock + 1
                    /\ faults' = Faults(outcome)
                    /\ ret' = [op |-> "update_session_settings", sid |-> sid,
                               found |-> TRUE, was_cached |-> cache[sid] # NoObj,
                               file_before |-> disk[sid], value |-> TRUE]
    /\ calls' = calls + 1
    /\ UNCHANGED <<wk, active, stamped, acked>>
    /\ UNCHANGED <<chunkVars, searchVars, ingVars, dispVars>>

\* delete_session(sid); os.remove may raise (outcome "remove_fails")
DeleteSession(w, sid, outcome) ==
    /\ Idle(w) /\ calls < MaxCalls /\ MayFail(outcome)
    /\ outcome # "ok" => disk[sid] # NoFile
    /\ cache' = [cache EXCEPT ![sid] = NoObj]
    /\ heap' = Collect(heap, cache', wk)
    /\ disk' = IF outcome = "ok" THEN [disk EXCEPT ![sid] = NoFile] ELSE disk
    /\ persisted' = IF outcome = "ok" THEN [persisted EXCEPT ![sid] = NoSession]
                    ELSE persisted
    /\ stamped' = IF outcome = "ok" THEN [stamped EXCEPT ![sid] = <<>>] ELSE stamped
    /\ acked' = IF outcome = "ok" THEN [acked EXCEPT ![sid] = {}] ELSE acked
    /\ ret' = [op |-> "delete_session", sid |-> sid, value |-> outcome = "ok"]
    /\ calls' = calls + 1
    /\ faults' = Faults(outcome)
    /\ UNCHANGED <<clock, wk, active>>
    /\ UNCHANGED <<chunkVars, searchVars, ingVars, dispVars>>

\* list_sessions(); os.listdir returns the files in the order names
ListSessions(w, names) ==
    /\ Idle(w)
    /\ ret' = [op |-> "list_sessions", value |-> ListSessionsOf(disk, names),
               cached |-> {s \in SessionIds : cache[s] # NoObj}]
    /\ UNCHANGED <<heap, cache, disk, clock, wk, calls, faults, active,
                   stamped, acked, persisted>>
    /\ UNCHANGED <<chunkVars, searchVars, ingVars, dispVars>>

\* add_message(sid, role, content, metadata), get_session: the cache lookup
AmLookup(w, sid, i) ==
    /\ Idle(w) /\ calls < MaxCalls
    /\ wk' = [wk EXCEPT ![w] =
                IF cache[sid] # NoObj
                THEN [pc |-> "am_append", sid |-> sid, inp |-> i, obj |-> cache[sid],
                      stamp |-> 0, hit |-> TRUE, file |-> NoFile]
                ELSE [pc |-> "am_load", sid |-> sid, inp |-> i, obj |-> NoObj,
                      stamp |-> 0, hit |-> FALSE, file |-> NoFile]]
    /\ calls' = calls + 1
    /\ ret' = NoRet
    /\ UNCHANGED <<heap, cache, disk, clock, faults, active, stamped, acked, persisted>>
    /\ UNCHANGED <<chunkVars, searchVars, ingVars, dispVars>>

\* ... get_session: _load_session and the cache store; return False on None
AmLoad(w) ==
    /\ w \in active /\ wk[w].pc = "am_load"
    /\ LET sid == wk[w].sid
           sv  == LoadSession(disk[sid])
           o   == Alloc(heap)
       IN  IF sv = NoSession
           THEN /\ wk' = [wk EXCEPT ![w] = WkIdle]
                /\ ret' = [op |-> "add_message", sid |-> sid, found |-> FALSE,
                           was_cached |-> FALSE, file_before |-> disk[sid],
                           value |-> FALSE, stamp |-> 0]
                /\ heap' = Collect(heap, cache, wk')
                /\ UNCHANGED cache
           ELSE /\ wk' = [wk EXCEPT ![w].pc = "am_append", ![w].obj = o,
                                      ![w].file = disk[sid]]
                /\ cache' = [cache EXCEPT ![sid] = o]
                /\ heap' = Collect([heap EXCEPT ![o] = sv], cache', wk')
                /\ UNCHANGED ret
    /\ UNCHANGED <<disk, clock, calls, faults, active, stamped, acked, persisted>>
    /\ UNCHANGED <<chunkVars, searchVars, ingVars, dispVars>>

\* ... the message is built and appended, last_updated and the summary are set
AmAppend(w) ==
    /\ w \in active /\ wk[w].pc = "am_append"
    /\ LET o == wk[w].obj
       IN  /\ heap' = [heap EXCEPT ![o] = AppendMessage(@, AddInputs[wk[w].inp],
                                                          clock, clock + 1)]
           /\ stamped' = [stamped EXCEPT ![wk[w].sid] = Append(@, clock)]
    /\ wk' = [wk EXCEPT ![w].pc = "am_open", ![w].stamp = clock]
    /\ clock' = clock + 2
    /\ UNCHANGED <<cache, disk, ret, calls, faults, active, acked, persisted>>
    /\ UNCHANGED <<chunkVars, searchVars, ingVars, dispVars>>

\* the call returns True
AmReturn(w) ==
    /\ acked' = [acked EXCEPT ![wk[w].sid] = @ \cup {wk[w].stamp}]
    /\ ret' = [op |-> "add_message", sid |-> wk[w].sid, found |-> TRUE,
               was_cached |-> wk[w].hit, file_before |-> wk[w].file,
               value |-> TRUE, stamp |-> wk[w].stamp]
    /\ wk' = [wk EXCEPT ![w] = WkIdle]
    /\ heap' = Collect(heap, cache, wk')

\* ... _save_session: open(session_file, 'w') truncates the file, or raises
\* (the exception is printed and add_message returns True)
AmOpen(w, outcome) ==
    /\ w \in active /\ wk[w].pc = "am_open"
    /\ outcome \in {"ok", "open_fails"} /\ MayFail(outcome)
    /\ LET file == heap[wk[w].obj].session_id
       IN  IF outcome = "ok"
           THEN /\ disk' = [disk EXCEPT ![file] = EmptyFile]
                /\ persisted' = [persisted EXCEPT ![file] = NoSession]
                /\ wk' = [wk EXCEPT ![w].pc = "am_dump"]
                /\ UNCHANGED <<heap, ret, acked>>
           ELSE /\ AmReturn(w)
                /\ UNCHANGED <<disk, persisted>>
    /\ faults' = Faults(outcome)
    /\ UNCHANGED <<cache, clock, calls, active, stamped>>
    /\ UNCHANGED <<chunkVars, searchVars, ingVars, dispVars>>

\* ... _save_session: json.dump(session.to_dict(), f) writes the session as
\* it is now, or raises part-way; add_message returns True
AmDump(w, outcome) ==
    /\ w \in active /\ wk[w].pc = "am_dump"
    /\ outcome \in {"ok", "dump_fails"} /\ MayFail(outcome)
    /\ LET sv == heap[wk[w].obj]
       IN  /\ disk' = [disk EXCEPT ![sv.session_id] = SavedFile(@, sv, outcome)]
           /\ persisted' = [persisted EXCEPT ![sv.session_id] = Persisted(@, sv, outcome)]
    /\ AmReturn(w)
    /\ faults' = Faults(outcome)
    /\ UNCHANGED <<cache, clock, calls, active, stamped>>
    /\ UNCHANGED <<chunkVars, searchVars, ingVars, dispVars>>

AddMessageStep(w) ==
    \/ \E sid \in SessionIds, i \in 1..Len(AddInputs) : AmLookup(w, sid, i)
    \/ AmLoad(w)
    \/ AmAppend(w)
    \/ \E outcome \in {"ok", "open_fails"} : AmOpen(w, outcome)
    \/ \E outcome \in {"ok", "dump_fails"} : AmDump(w, outcome)

SaveOutcomes == {"ok", "open_fails", "dump_fails"}

SessNext ==
    \E w \in Workers :
        \/ AddMessageStep(w)
        \/ \E sid \in SessionIds, a \in CreateArgs, outcome \in SaveOutcomes :
              CreateSession(w, sid, a[1], a[2], outcome)
        \/ \E sid \in SessionIds : GetSession(w, sid)
        \/ \E sid \in SessionIds, inc \in BOOLEAN : GetContextForLlm(w, sid, inc)
        \/ \E sid \in SessionIds, limit \in {0, 2} : GetConversationHistory(w, sid, limit)
        \/ \E sid \in SessionIds, a \in UpdateArgs, outcome \in SaveOutcomes :
              UpdateSessionSettings(w, sid, a[1], a[2], outcome)
        \/ \E sid \in SessionIds, outcome \in {"ok", "remove_fails"} :
              DeleteSession(w, sid, outcome)
        \/ \E names \in ListdirOrders : ListSessions(w, names)

ConcNext == \E w \in Workers : AddMessageStep(w)

\* two request threads that add messages, delete sessions and look them up
DeleteNext ==
    \E w \in Workers :
        \/ AddMessageStep(w)
        \/ \E sid \in SessionIds : DeleteSession(w, sid, "ok")
        \/ \E sid \in SessionIds : GetSession(w, sid)

(***************************************************************************)
(* ReasoningStrategyManager and the strategies.  The completion service    *)
(* (llm_client) and the prompt protocol of the generation strategy answer  *)
(* or raise; fail names the one that raises in a call.                     *)
(***************************************************************************)
\* self.strategies, in insertion order
Strategies == <<"generation", "self_ask", "atomic_decomposition">>
\* the strategy names callers pass
StrategyNames == Range(Strategies) \cup {"nonexistent", ""}
\* conversation histories: the first h of the turns of a conversation
MaxHistory == 6
History(h) == [i \in 1..h |-> [role |-> IF i % 2 = 1 THEN "user" ELSE "assistant",
                               content |-> i]]
\* context lists: the first c retrieved documents
MaxContext == 1
Context(c) == [i \in 1..c |-> <<"document", i>>]
Failures == {"none", "llm", "protocol"}
ServiceError == "completion service unavailable"
ProtocolError == "protocol error"

\* strategy.process_question of GenerationStrategy
GenerationProcess(question, context, history, fail) ==
    LET messages == LastN(history, 5)
        current  == <<[role |-> "user", content |-> <<"qa", question, context>>]>>
        system_msg == [role |-> "system",
                       content |-> "Continue the conversation naturally, taking into account the previous context."]
        final    == IF messages # <<>> THEN <<system_msg>> \o messages \o current
                    ELSE current
    IN  IF fail = "protocol"
        THEN [raised |-> FALSE, llm_calls |-> 0, llm_messages |-> <<>>,
              value |-> [success |-> FALSE, strategy |-> "generation",
                         error |-> ProtocolError,
                         answer |-> <<"Error in generation strategy: ", ProtocolError>>]]
        ELSE IF fail = "llm"
        THEN [raised |-> FALSE, llm_calls |-> 1, llm_messages |-> final,
              value |-> [success |-> FALSE, strategy |-> "generation",
                         error |-> ServiceError,
                         answer |-> <<"Error in generation strategy: ", ServiceError>>]]
        ELSE [raised |-> FALSE, llm_calls |-> 1, llm_messages |-> final,
              value |-> [success |-> TRUE, strategy |-> "generation",
                         answer |-> <<"parsed answer to", question>>,
                         reasoning_steps |-> <<<<"Retrieved", Len(context)>>,
                                               <<"Considered last", Len(history)>>,
                                               "Generated direct answer using context">>]]

\* a self-ask strategy whose call of the completion service is not in a try
SelfAskProcessUnguarded(question, context, history, fail) ==
    LET messages == LastN(history, 3)
                    \o <<[role |-> "user", content |-> <<"self-ask", question, context>>]>>
    IN  IF fail = "llm"
        THEN [raised |-> TRUE, llm_calls |-> 1, llm_messages |-> messages,
              value |-> [success |-> FALSE]]
        ELSE [raised |-> FALSE, llm_calls |-> 1, llm_messages |-> messages,
              value |-> [success |-> TRUE, strategy |-> "self_ask",
                         answer |-> <<"response to", question>>]]

\* strategy.process_question of SelfAskStrategy
SelfAskProcess(question, context, history, fail) ==
    LET messages == LastN(history, 3)
                    \o <<[role |-> "user", content |-> <<"self-ask", question, context>>]>>
    IN  IF fail = "llm"
        THEN [raised |-> FALSE, llm_calls |-> 1, llm_messages |-> messages,
              value |-> [success |-> FALSE, strategy |-> "self_ask",
                         error |-> ServiceError,
                         answer |-> <<"Error in self-ask strategy: ", ServiceError>>]]
        ELSE [raised |-> FALSE, llm_calls |-> 1, llm_messages |-> messages,
              value |-> [success |-> TRUE, strategy |-> "self_ask",
                         answer |-> <<"response to", question>>]]

\* an atomic decomposition strategy that sends the last 5 messages
AtomicDecompositionProcessWiderWindow(question, context, history, fail) ==
    LET messages == LastN(history, 5)
                    \o <<[role |-> "user", content |-> <<"atomic", question, context>>]>>
    IN  IF fail = "llm"
        THEN [raised |-> FALSE, llm_calls |-> 1, llm_messages |-> messages,
              value |-> [success |-> FALSE, strategy |-> "atomic_decomposition",
                         error |-> ServiceError,
                         answer |-> <<"Error in atomic decomposition strategy: ",
                                      ServiceError>>]]
        ELSE [raised |-> FALSE, llm_calls |-> 1, llm_messages |-> messages,
              value |-> [success |-> TRUE, strategy |-> "atomic_decomposition",
                         answer |-> <<"response to", question>>]]

\* strategy.process_question of AtomicDecompositionStrategy
AtomicDecompositionProcess(question, context, history, fail) ==
    LET messages == LastN(history, 3)
                    \o <<[role |-> "user", content |-> <<"atomic", question, context>>]>>
    IN  IF fail = "llm"
        THEN [raised |-> FALSE, llm_calls |-> 1, llm_messages |-> messages,
              value |-> [success |-> FALSE, strategy |-> "atomic_decomposition",
                         error |-> ServiceError,
                         answer |-> <<"Error in atomic decomposition strategy: ",
                                      ServiceError>>]]
        ELSE [raised |-> FALSE, llm_calls |-> 1, llm_messages |-> messages,
              value |-> [success |-> TRUE, strategy |-> "atomic_decomposition",
                         answer |-> <<"response to", question>>]]

\* list_strategies: the names, in the order of self.strategies.values()
ListStrategies == Strategies

\* a dispatcher that uses the generation strategy for a name it does not know
ProcessWithStrategyDefaulting(strategy_name, question, context, history, fail) ==
    CASE strategy_name = "self_ask" ->
            SelfAskProcess(question, context, history, fail)
      [] strategy_name = "atomic_decomposition" ->
            AtomicDecompositionProcess(question, context, history, fail)
      [] OTHER -> GenerationProcess(question, context, history, fail)

\* process_with_strategy
ProcessWithStrategy(strategy_name, question, context, history, fail) ==
    IF strategy_name \notin Range(Strategies)
    THEN [raised |-> FALSE, llm_calls |-> 0, llm_messages |-> <<>>,
          value |-> [success |-> FALSE,
                     error |-> <<"Unknown reasoning strategy: ", strategy_name>>,
                     available_strategies |-> ListStrategies]]
    ELSE CASE strategy_name = "generation" ->
                 GenerationProcess(question, context, history, fail)
           [] strategy_name = "self_ask" ->
                 SelfAskProcess(question, context, history, fail)
           [] strategy_name = "atomic_decomposition" ->
                 AtomicDecompositionProcess(question, context, history, fail)

DispInit ==
    /\ dret = NoCall
    /\ aret = NoCall
    /\ ChunkIdle
    /\ SearchIdle
    /\ SessIdle
    /\ IngIdle

\* a request: process_with_strategy(strategy_name, question, context,
\* conversation_history, llm_client, llm_config)
Dispatch(strategy_name, h, c, fail) ==
    /\ LET r == ProcessWithStrategy(strategy_name, Question, Context(c), History(h), fail)
       IN  dret' = [op |-> "process_with_strategy", strategy_name |-> strategy_name,
                    history |-> h, context |-> c, fail |-> fail,
                    raised |-> r.raised, llm_calls |-> r.llm_calls,
                    llm_messages |-> r.llm_messages, value |-> r.value]
    /\ UNCHANGED aret
    /\ UNCHANGED <<chunkVars, searchVars, sessVars, ingVars>>

DispNext ==
    \E strategy_name \in StrategyNames, h \in 0..MaxHistory, c \in 0..MaxContext,
       fail \in Failures :
        Dispatch(strategy_name, h, c, fail)

(***************************************************************************)
(* Ingestion.  A text is [id, len, short, windows]: what it says, its      *)
(* length, whether len(text) <= 1000, and the number of chunks with        *)
(* content the chunker cuts from it when it is longer.  A vector is the    *)
(* zero vector, the embedding service's embedding of a text, or the        *)
(* embedding the index computes itself.  The reader libraries (python-docx,*)
(* PyPDF2) are installed.                                                  *)
(***************************************************************************)
MaxIngests == 2
MaxSeconds == 1
\* the dimension of the dummy embeddings, [0.0] * 1536
EmbeddingDim == 1536
\* the literal in  input=text[:8000]
MaxInputLen == 8000
\* the default n_results of search_knowledge_base
DefaultNResults == 5

ZeroVector == [kind |-> "zero", dim |-> EmbeddingDim]
\* text[:n]
Prefix(t, n) == [t EXCEPT !.len = Min(t.len, n)]
\* response.data[0].embedding for the input x
ServiceEmbedding(x) == [kind |-> "embedding", of |-> x]

\* get_embeddings that returns the embeddings made before the service raised
EmbedKeepingPartial(client, texts, failAt) ==
    LET n == Len(texts)
    IN  IF client = "none"
        THEN [raised |-> FALSE, calls |-> 0, vectors |-> [i \in 1..n |-> ZeroVector]]
        ELSE LET f == IF client = "raises" THEN 1 ELSE failAt
             IN  IF f \in 1..n
                 THEN [raised |-> FALSE, calls |-> f,
                       vectors |-> [i \in 1..(f - 1) |->
                                      ServiceEmbedding(Prefix(texts[i], MaxInputLen))]]
                 ELSE [raised |-> FALSE, calls |-> n,
                       vectors |-> [i \in 1..n |->
                                      ServiceEmbedding(Prefix(texts[i], MaxInputLen))]]

\* get_embeddings that lets the service's exception pass
EmbedRaising(client, texts, failAt) ==
    LET n == Len(texts)
    IN  IF client = "none"
        THEN [raised |-> FALSE, calls |-> 0, vectors |-> [i \in 1..n |-> ZeroVector]]
        ELSE LET f == IF client = "raises" THEN 1 ELSE failAt
             IN  IF f \in 1..n
                 THEN [raised |-> TRUE, calls |-> f, vectors |-> <<>>]
                 ELSE [raised |-> FALSE, calls |-> n,
                       vectors |-> [i \in 1..n |->
                                      ServiceEmbedding(Prefix(texts[i], MaxInputLen))]]

\* get_embeddings(texts).  client "raises": every call of the service
\* raises; client "ok": the call for texts[failAt] raises (none when failAt
\* is not an index of texts).  calls counts the calls of the service.
Embed(client, texts, failAt) ==
    LET n == Len(texts)
    IN  IF client = "none"
        THEN [raised |-> FALSE, calls |-> 0, vectors |-> [i \in 1..n |-> ZeroVector]]
        ELSE LET f == IF client = "raises" THEN 1 ELSE failAt
             IN  IF f \in 1..n
                 THEN [raised |-> FALSE, calls |-> f,
                       vectors |-> [i \in 1..n |-> ZeroVector]]
                 ELSE [raised |-> FALSE, calls |-> n,
                       vectors |-> [i \in 1..n |->
                                      ServiceEmbedding(Prefix(texts[i], MaxInputLen))]]

\* the texts get_embeddings is called with: chunks and queries
EmbedTexts ==
    {[id |-> "q1", len |-> 10], [id |-> "q2", len |-> MaxInputLen],
     [id |-> "q3", len |-> MaxInputLen + 1]}

(***************************************************************************)
(* The vector index (chromadb).  What add does with an id the collection   *)
(* already has, with an empty list, and what query does when the           *)
(* collection has fewer entries than n_results, depends on the version of  *)
(* the library: it raises, or it ignores the ids / returns what there is.  *)
(***************************************************************************)
NoCollection == [exists |-> FALSE, entries |-> <<>>]
CollNames(p) == IF p = "lite" THEN 0..MaxSeconds ELSE {"documents", "papers"}

\* chroma_client.get_or_create_collection(name)
GetOrCreate(st, name) ==
    IF st[name].exists THEN st
    ELSE [st EXCEPT ![name] = [exists |-> TRUE, entries |-> <<>>]]

Ids(es) == {es[i].id : i \in 1..Len(es)}

RECURSIVE SelectNew(_, _)
SelectNew(es, have) ==
    IF es = <<>> THEN <<>>
    ELSE IF Head(es).id \in have THEN SelectNew(Tail(es), have)
    ELSE <<Head(es)>> \o SelectNew(Tail(es), have)

\* an add that appends whatever it is given
CollectionAddUnchecked(old, new, dupRaises, emptyRaises) ==
    [raised |-> FALSE, entries |-> old \o new]

\* collection.add(...): the entries of the collection afterwards
CollectionAdd(old, new, dupRaises, emptyRaises) ==
    IF new = <<>>
    THEN [raised |-> emptyRaises, entries |-> old]
    ELSE IF Cardinality(Ids(new)) < Len(new)
    THEN [raised |-> TRUE, entries |-> old]
    ELSE IF Ids(new) \cap Ids(old) # {} /\ dupRaises
    THEN [raised |-> TRUE, entries |-> old]
    ELSE [raised |-> FALSE, entries |-> old \o SelectNew(new, Ids(old))]

\* collection.query(n_results=n): the documents found, or an exception
CollectionQueryTexts(entries, n, shortRaises) ==
    IF Len(entries) < n /\ shortRaises
    THEN [raised |-> TRUE, found |-> <<>>]
    ELSE [raised |-> FALSE, found |-> SubSeq(entries, 1, Min(n, Len(entries)))]

(***************************************************************************)
(* Uploaded files and the readers.  The content of a file is "short" or    *)
(* "long" (text), "blank" or "blank_long" (only whitespace, or only empty  *)
(* paragraphs or pages), "empty" (nothing), "unreadable" (not a file of    *)
(* the format its name says), "legacy" (a binary .doc file) or             *)
(* "error_report" (a text whose first word is 'Error').                    *)
(***************************************************************************)
Uploads ==
    {[stem |-> "a", ext |-> "txt", content |-> "short"],
     [stem |-> "a", ext |-> "txt", content |-> "long"],
     [stem |-> "b", ext |-> "txt", content |-> "long"],
     [stem |-> "a", ext |-> "txt", content |-> "empty"],
     [stem |-> "e", ext |-> "txt", content |-> "error_report"],
     [stem |-> "a", ext |-> "txt", content |-> "blank_long"],
     [stem |-> "a", ext |-> "docx", content |-> "blank"],
     [stem |-> "a", ext |-> "docx", content |-> "unreadable"],
     [stem |-> "a", ext |-> "doc", content |-> "legacy"],
     [stem |-> "a", ext |-> "doc", content |-> "short"],
     [stem |-> "a", ext |-> "xyz", content |-> "short"],
     [stem |-> "a", ext |-> "pdf", content |-> "blank"]}

\* filename, and filename.split('.')[-1].lower()
FileName(u) == <<u.stem, u.ext>>
FileType(u) == u.ext

\* the text of a document that reports on errors
ErrorReport == "Error rates of the retrieval service, 2024"
ContentText(content) ==
    CASE content = "short" ->
            [kind |-> "content", id |-> "short text", len |-> 35, short |-> TRUE,
             windows |-> 1]
      [] content = "long" ->
            [kind |-> "content", id |-> "long text", len |-> 1500, short |-> FALSE,
             windows |-> 2]
      [] content = "blank" ->
            [kind |-> "content", id |-> "whitespace", len |-> 3, short |-> TRUE,
             windows |-> 0]
      [] content = "blank_long" ->
            [kind |-> "content", id |-> "long whitespace", len |-> 1200, short |-> FALSE,
             windows |-> 0]
      [] content = "error_report" ->
            [kind |-> "content", id |-> ErrorReport, len |-> 42, short |-> TRUE,
             windows |-> 1]
EmptyText == [kind |-> "empty", id |-> "", len |-> 0, short |-> TRUE, windows |-> 0]
Sentinel ==
    [kind |-> "sentinel", id |-> "No readable text found in document", len |-> 34,
     short |-> TRUE, windows |-> 1]
ErrorText(message) ==
    [kind |-> "error", id |-> message, len |-> 40, short |-> TRUE, windows |-> 1]
UnsupportedText(file_type) ==
    [kind |-> "unsupported", id |-> <<"Unsupported file type: ", file_type>>, len |-> 30,
     short |-> TRUE, windows |-> 1]
\* the text of a PDF whose pages have no text: page.extract_text() + "\\n"
\* per page, where "\\n" is a backslash and the letter n
BackslashNText ==
    [kind |-> "content", id |-> "\\n", len |-> 2, short |-> TRUE, windows |-> 1]
LegacyDocError ==
    "Error: .doc format (Office 97-2003) is not supported. Please save the document as .docx format (Office 2007+) and try again."

\* DocumentProcessorLite.extract_text_from_file(file_path, file_type) for a
\* file with this content: the text returned, and whether a reader was run
\* on the file (attempted)
ExtractTextFromFile(file_type, content) ==
    CASE file_type = "txt" ->
            [attempted |-> TRUE,
             text |-> CASE content = "unreadable" -> ErrorText("Error extracting text: ")
                        [] content = "empty" -> EmptyText
                        [] OTHER -> ContentText(content)]
      [] file_type = "pdf" ->
            [attempted |-> TRUE,
             text |-> CASE content = "unreadable" -> ErrorText("Error extracting text: ")
                        [] content = "empty" -> EmptyText
                        [] content \in {"blank", "blank_long"} -> BackslashNText
                        [] OTHER -> ContentText(content)]
      [] file_type = "docx" ->
            [attempted |-> TRUE,
             text |-> CASE content \in {"unreadable", "legacy"} ->
                             ErrorText("Error reading Word document: ")
                        [] content \in {"empty", "blank", "blank_long"} -> Sentinel
                        [] OTHER -> ContentText(content)]
      [] file_type = "doc" ->
            [attempted |-> FALSE, text |-> ErrorText(LegacyDocError)]
      [] OTHER ->
            [attempted |-> FALSE, text |-> UnsupportedText(file_type)]

\* process_uploaded_file, lines 65-75: the text extracted, or an exception
\* (raised), and whether a reader was run on the file
ExtractByExtension(file_extension, content) ==
    IF file_extension \in {"pdf", "doc", "docx", "txt"}
    THEN IF content \in {"unreadable", "legacy"}
         THEN [attempted |-> TRUE, raised |-> TRUE, text |-> EmptyText]
         ELSE [attempted |-> TRUE, raised |-> FALSE,
               text |-> IF content = "empty" THEN EmptyText ELSE ContentText(content)]
    ELSE [attempted |-> FALSE, raised |-> TRUE, text |-> EmptyText]

\* the word 'Error' or 'Unsupported' when the text t starts with it
FirstWord(t) ==
    CASE t.kind = "error" -> "Error"
      [] t.kind = "unsupported" -> "Unsupported"
      [] t.kind = "content" /\ t.id = ErrorReport -> "Error"
      [] OTHER -> ""

\* process_document, line 170:  not text or text.startswith("Error") or
\* text.startswith("Unsupported")
Rejected(t) == t.kind = "empty" \/ FirstWord(t) \in {"Error", "Unsupported"}

\* the chunks chunk_text (lite) and _split_text_into_chunks (full) return
\* for the text t: a text of at most 1000 characters is one chunk in lite,
\* whatever it holds; otherwise the windows that are not blank
ChunkText(p, t) ==
    LET n == IF p = "lite" /\ t.short THEN 1 ELSE t.windows
    IN  [i \in 1..n |-> [id |-> <<t.id, i>>, len |-> Min(t.len, 1000)]]

IngInit ==
    /\ proc \in {"lite", "full"}
    /\ store = [n \in CollNames(proc) |-> NoCollection]
    /\ second = 0
    /\ uuids = 0
    /\ iret = NoCall
    /\ ingests = 0
    /\ chroma_client \in BOOLEAN
    /\ openai_client \in {"none", "ok", "raises"}
    /\ index = <<>>
    /\ sret = NoSearch
    /\ ChunkIdle
    /\ SessIdle
    /\ DispIdle

\* the clock passes into the next second
Tick ==
    /\ second < MaxSeconds
    /\ second' = second + 1
    /\ UNCHANGED <<proc, store, uuids, iret, ingests>>
    /\ UNCHANGED <<chunkVars, searchVars, sessVars, dispVars>>

\* the ids process_document gives the chunks: chunk_{i}_{filename}
ChunkIds(filename, n) == [i \in 1..n |-> <<"chunk", i - 1, filename>>]

\* DocumentProcessorLite.process_document(file_path, filename)
ProcessDocument(u, failAt, dupRaises, emptyRaises) ==
    /\ proc = "lite" /\ ingests < MaxIngests
    /\ openai_client # "ok" => failAt = 0
    /\ LET filename == FileName(u)
           x == ExtractTextFromFile(FileType(u), u.content)
           cs == ChunkText("lite", x.text)
           call == [op |-> "process_document", upload |-> u, file_type |-> FileType(u),
                    extract_attempted |-> x.attempted, text |-> x.text, before |-> store]
       IN  IF Rejected(x.text)
           THEN /\ iret' = call @@ [chunks |-> <<>>, raised |-> FALSE,
                                    value |-> [success |-> FALSE, error |-> x.text.id]]
                /\ UNCHANGED <<store, uuids>>
           ELSE IF ~chroma_client
           THEN /\ iret' = call @@ [chunks |-> cs, raised |-> FALSE,
                                    value |-> [success |-> TRUE, chunks |-> Len(cs),
                                               document_id |-> <<"uuid", uuids>>]]
                /\ uuids' = uuids + 1
                /\ UNCHANGED store
           ELSE LET name == second
                    created == GetOrCreate(store, name)
                    emb == Embed(openai_client, cs, failAt)
                    ids == ChunkIds(filename, Len(cs))
                    new == [i \in 1..Len(cs) |->
                              [id |-> ids[i], document |-> cs[i],
                               vector |-> IF emb.raised THEN ZeroVector ELSE emb.vectors[i]]]
                    added == CollectionAdd(created[name].entries, new,
                                           dupRaises, emptyRaises)
                    sent == call @@ [chunks |-> cs, raised |-> FALSE, collection |-> name,
                                     ids |-> ids, fail_at |-> failAt,
                                     embed_calls |-> emb.calls,
                                     vectors |-> IF emb.raised THEN <<>> ELSE emb.vectors,
                                     index_raised |-> ~emb.raised /\ added.raised]
                IN  IF emb.raised \/ added.raised
                    THEN /\ store' = created
                         /\ iret' = sent @@ [value |-> [success |-> FALSE,
                                                        error |-> "exception"]]
                         /\ UNCHANGED uuids
                    ELSE /\ store' = [created EXCEPT ![name].entries = added.entries]
                         /\ iret' = sent @@ [value |-> [success |-> TRUE,
                                                        chunks |-> Len(cs),
                                                        document_id |-> name,
                                                        collection_name |-> name]]
                         /\ UNCHANGED uuids
    /\ ingests' = ingests + 1
    /\ UNCHANGED <<proc, second>>
    /\ UNCHANGED <<chunkVars, searchVars, sessVars, dispVars>>

\* DocumentProcessor.process_uploaded_file(file_storage, collection_name),
\* with _add_to_knowledge_base, whose result it does not look at
ProcessUploadedFile(u, collection_name, dupRaises, emptyRaises) ==
    /\ proc = "full" /\ ingests < MaxIngests
    /\ LET file_id == <<"uuid", uuids>>
           x == ExtractByExtension(FileType(u), u.content)
           cs == ChunkText("full", x.text)
           call == [op |-> "process_uploaded_file", upload |-> u,
                    file_type |-> FileType(u), extract_attempted |-> x.attempted,
                    text |-> x.text, before |-> store, collection |-> collection_name]
       IN  IF x.raised
           THEN /\ iret' = call @@ [chunks |-> <<>>, raised |-> FALSE,
                                    value |-> [success |-> FALSE, error |-> "exception"]]
                /\ UNCHANGED store
           ELSE LET created == GetOrCreate(store, collection_name)
                    new == [i \in 1..Len(cs) |->
                              [id |-> <<file_id, "chunk", i - 1>>, document |-> cs[i],
                               vector |-> [kind |-> "default", of |-> cs[i]]]]
                    added == CollectionAdd(created[collection_name].entries, new,
                                           dupRaises, emptyRaises)
                IN  /\ store' = IF ~chroma_client THEN store
                                ELSE IF added.raised THEN created
                                ELSE [created EXCEPT ![collection_name].entries =
                                                        added.entries]
                    /\ iret' = call @@ [chunks |-> cs, raised |-> FALSE,
                                        ids |-> [i \in 1..Len(cs) |-> new[i].id],
                                        index_raised |-> ~chroma_client \/ added.raised,
                                        value |-> [success |-> TRUE, file_id |-> file_id,
                                                   chunks_count |-> Len(cs),
                                                   collection_name |-> collection_name]]
    /\ uuids' = uuids + 1
    /\ ingests' = ingests + 1
    /\ UNCHANGED <<proc, second>>
    /\ UNCHANGED <<chunkVars, searchVars, sessVars, dispVars>>

\* the items search_knowledge_base makes of the query results
Formatted(found) ==
    [i \in 1..Len(found) |-> [content |-> found[i].document, chunk_id |-> found[i].id]]

\* DocumentProcessor.search_knowledge_base(query, collection_name, n_results)
SearchKnowledgeBase(collection_name, shortRaises) ==
    /\ proc = "full"
    /\ LET missing == ~store[collection_name].exists
           q == CollectionQueryTexts(store[collection_name].entries, DefaultNResults,
                                     shortRaises)
       IN  iret' = [op |-> "search_knowledge_base", collection |-> collection_name,
                    missing |-> missing, raised |-> FALSE,
                    index_raised |-> ~chroma_client \/ missing \/ q.raised,
                    matches |-> Len(store[collection_name].entries),
                    value |-> IF ~chroma_client \/ missing \/ q.raised THEN <<>>
                              ELSE Formatted(q.found)]
    /\ UNCHANGED <<proc, store, second, uuids, ingests>>
    /\ UNCHANGED <<chunkVars, searchVars, sessVars, dispVars>>

\* DocumentProcessorLite.get_embeddings(texts), which reads openai_client
\* only (it is called here before anything is ingested)
GetEmbeddingsCall(texts, failAt) ==
    /\ proc = "lite" /\ ingests = 0
    /\ openai_client # "ok" => failAt = 0
    /\ LET emb == Embed(openai_client, texts, failAt)
       IN  iret' = [op |-> "get_embeddings", texts |-> texts, fail_at |-> failAt,
                    raised |-> emb.raised, embed_calls |-> emb.calls,
                    value |-> emb.vectors]
    /\ UNCHANGED <<proc, store, second, uuids, ingests>>
    /\ UNCHANGED <<chunkVars, searchVars, sessVars, dispVars>>

IngNext ==
    \/ Tick
    \/ \E u \in Uploads, failAt \in 0..2, dupRaises \in BOOLEAN, emptyRaises \in BOOLEAN :
          ProcessDocument(u, failAt, dupRaises, emptyRaises)
    \/ \E u \in Uploads, cn \in CollNames("full"), dupRaises \in BOOLEAN,
          emptyRaises \in BOOLEAN :
          ProcessUploadedFile(u, cn, dupRaises, emptyRaises)
    \/ \E cn \in CollNames("full"), shortRaises \in BOOLEAN : SearchKnowledgeBase(cn, shortRaises)
    \/ \E texts \in SeqsUpTo(EmbedTexts, 2), failAt \in 0..2 : GetEmbeddingsCall(texts, failAt)

\* one request at a time, storage faults possible
(***************************************************************************)
(* The question-answering handlers: ask_question of app_enhanced.py and of *)
(* app_railway_full.py (with ReasoningStrategyManager loaded).  A request  *)
(* is served by one thread from begin to end; the retriever's answer is    *)
(* the context list it leaves after the handler's filter.                  *)
(***************************************************************************)
Apps == {"enhanced", "railway"}
\* the values of reasoning_strategy in the requests
AskStrategies == {"generation", "self_ask", "nonexistent"}
AskFailures == {"none", "llm"}
DefaultKnowledgeBase == "documents"
NoAnswer == "No answer generated"

UserTurn(question) == [role |-> "user", content |-> question, metadata |-> EmptyDict]
AssistantTurn(answer, strategy) ==
    [role |-> "assistant", content |-> answer,
     metadata |-> {<<"reasoning_strategy", strategy>>}]

\* add_message on the session value sv (None: the call returns False)
Added(sv, inp, t) == IF sv = NoSession THEN NoSession ELSE AppendMessage(sv, inp, t, t + 1)
\* get_context_for_llm(session_id)
ContextOf(sv) == IF sv = NoSession THEN <<>> ELSE ContextForLlm(sv, TRUE)
MessagesOf(sv) == IF sv = NoSession THEN <<>> ELSE sv.messages

\* generate_simple_answer(question, sources, history) of app_railway_full
GenerateSimpleAnswer(question, sources, history, fail) ==
    LET system_msg == [role |-> "system",
                       content |-> "You are a helpful AI assistant. Use the provided context to answer questions accurately."]
        recent == IF Len(history) > 4 THEN LastN(history, 4) ELSE history
        prompt == [role |-> "user",
                   content |-> <<"simple", question, SubSeq(sources, 1, Min(3, Len(sources)))>>]
    IN  [llm_messages |-> <<system_msg>> \o recent \o <<prompt>>,
         answer |-> IF fail = "llm" THEN <<"Error generating answer: ", ServiceError>>
                    ELSE <<"response to", question>>]

\* ask_question of app_railway_full.py from the first add_message on, for
\* the session value s0 (None when the id names no session): the user
\* message is added, then the history is read, then the answer is made and
\* added
AskRailway(s0, question, strategy, sources, fail, t0) ==
    LET s1      == Added(s0, UserTurn(question), t0)
        history == ContextOf(s1)
        d       == ProcessWithStrategy(strategy, question, sources, history, fail)
        g       == GenerateSimpleAnswer(question, sources, history, fail)
        dispatched == strategy # "generation"
        answer  == IF dispatched
                   THEN IF "answer" \in DOMAIN d.value THEN d.value.answer ELSE NoAnswer
                   ELSE g.answer
        s2      == Added(s1, AssistantTurn(answer, strategy), t0 + 2)
    IN  [history |-> history, dispatched |-> dispatched,
         at_dispatch |-> MessagesOf(s1),
         llm_messages |-> IF dispatched THEN d.llm_messages ELSE g.llm_messages,
         answer |-> answer, success |-> TRUE, final |-> s2]

\* ask_question of app_enhanced.py from get_context_for_llm on: the history
\* is read, the dispatcher is called, then the user message is added, and
\* the answer when the result has success
AskEnhanced(s0, question, strategy, context, fail, t0) ==
    LET history == ContextOf(s0)
        d       == ProcessWithStrategy(strategy, question, context, history, fail)
        s1      == Added(s0, UserTurn(question), t0)
        s2      == IF d.value.success
                   THEN Added(s1, AssistantTurn(d.value.answer, strategy), t0 + 2)
                   ELSE s1
    IN  [history |-> history, dispatched |-> TRUE,
         at_dispatch |-> MessagesOf(s0),
         llm_messages |-> d.llm_messages,
         answer |-> IF "answer" \in DOMAIN d.value THEN d.value.answer ELSE NoAnswer,
         success |-> d.value.success, final |-> s2]

AskInit ==
    /\ heap = [o \in ObjIds |-> NoSession]
    /\ cache = [s \in SessionIds |-> NoObj]
    /\ \E n \in {0, 2} :
          disk = [s \in SessionIds |->
                    IF s = "s1" THEN JsonFile(ToDict(Seeded("s1", n))) ELSE NoFile]
    /\ clock = ClockStart
    /\ wk = [w \in Workers |-> WkIdle]
    /\ ret = NoRet
    /\ calls = 0
    /\ faults = 0
    /\ active = {1}
    /\ stamped = [s \in SessionIds |-> Stamps(LoadSession(disk[s]))]
    /\ acked = [s \in SessionIds |-> Range(Stamps(LoadSession(disk[s])))]
    /\ persisted = [s \in SessionIds |-> LoadSession(disk[s])]
    /\ ChunkIdle
    /\ SearchIdle
    /\ IngIdle
    /\ DispIdle

\* POST /api/ask with the body {question, session_id, reasoning_strategy,
\* use_retrieval}; given is whether the body has a session_id (sid is then
\* that id, and otherwise the id create_session draws), c is the number of
\* passages the retriever leaves
AskQuestion(app, given, sid, question, strategy, use_retrieval, c, fail) ==
    /\ calls < MaxCalls
    /\ ~given => (cache[sid] = NoObj /\ disk[sid] = NoFile)
    /\ ~use_retrieval => c = 0
    /\ LET r     == Resolve(sid)
           found == ~given \/ r.found
           o     == IF given THEN r.obj ELSE Alloc(heap)
           base  == IF given THEN r.heap ELSE heap
           t0    == IF given THEN clock ELSE clock + 1
           s0    == IF ~given THEN NewSession(sid, clock, strategy, DefaultKnowledgeBase)
                    ELSE IF r.found THEN r.heap[r.obj] ELSE NoSession
           f     == IF app = "railway"
                    THEN AskRailway(s0, question, strategy, Context(c), fail, t0)
                    ELSE AskEnhanced(s0, question, strategy, Context(c), fail, t0)
           new   == SubSeq(Stamps(f.final), Len(MessagesOf(s0)) + 1,
                           Len(MessagesOf(f.final)))
       IN  /\ IF found
              THEN /\ cache' = [cache EXCEPT ![sid] = o]
                   /\ heap' = Collect([base EXCEPT ![o] = f.final], cache', wk)
                   /\ disk' = [disk EXCEPT ![sid] = SavedFile(@, f.final, "ok")]
                   /\ persisted' = [persisted EXCEPT ![sid] = f.final]
                   /\ stamped' = [stamped EXCEPT
                                    ![sid] = (IF given THEN @ ELSE <<>>) \o new]
                   /\ acked' = [acked EXCEPT
                                  ![sid] = (IF given THEN @ ELSE {}) \cup Range(new)]
              ELSE UNCHANGED <<heap, cache, disk, persisted, stamped, acked>>
           /\ clock' = t0 + 4
           /\ aret' = [op |-> "ask_question", app |-> app, given |-> given,
                       session_id |-> sid, found |-> found, question |-> question,
                       strategy |-> strategy, use_retrieval |-> use_retrieval,
                       context |-> c, fail |-> fail,
                       before |-> IF given THEN MessagesOf(s0) ELSE <<>>,
                       history |-> f.history, dispatched |-> f.dispatched,
                       at_dispatch |-> f.at_dispatch, llm_messages |-> f.llm_messages,
                       answer |-> f.answer, success |-> f.success,
                       after |-> MessagesOf(f.final)]
    /\ calls' = calls + 1
    /\ UNCHANGED <<wk, ret, faults, active, dret>>
    /\ UNCHANGED <<chunkVars, searchVars, ingVars>>

AskNext ==
    \E app \in Apps, given \in BOOLEAN, sid \in SessionIds, strategy \in AskStrategies,
       use_retrieval \in BOOLEAN, c \in 0..MaxContext, fail \in AskFailures :
        AskQuestion(app, given, sid, LongQuestion, strategy, use_retrieval, c, fail)

Spec == SeqInit /\ [][SessNext]_vars
\* two request threads calling add_message
SpecConc == ConcInit /\ [][ConcNext]_vars
\* ... and delete_session and get_session beside add_message
SpecDelete == ConcInit /\ [][DeleteNext]_vars

SpecChunk == ChunkInit /\ [][ChunkNext]_vars
SpecScenarioA == ScenarioAInit /\ [][ChunkNext]_vars
SpecSearch == SearchInit /\ [][SearchNext]_vars
SpecDispatch == DispInit /\ [][DispNext]_vars
SpecIngest == IngInit /\ [][IngNext]_vars
SpecAsk == AskInit /\ [][AskNext]_vars

(***************************************************************************)
(* Claims about ConversationManager (C1 under SpecConc, the others under   *)
(* Spec).                                                                  *)
(***************************************************************************)
Quiescent == \A w \in Workers : wk[w].pc = "idle"

\* C1: once the concurrent add_message calls on a session have returned,
\* every call that returned True has its message in the persisted session
\* exactly once, and the persisted messages are in the order in which the
\* calls appended them: no message is lost or overwritten by another writer.
C1_ConcurrentAddMessageLosesNothing ==
    Quiescent =>
        \A s \in SessionIds :
            acked[s] # {} =>
                LET sv == LoadSession(disk[s])
                IN  /\ sv # NoSession
                    /\ \A t \in acked[s] :
                          Cardinality({i \in 1..Len(sv.messages) :
                                          sv.messages[i].timestamp = t}) = 1
                    /\ Stamps(sv) = stamped[s]

\* C2: when add_message has returned True, storage holds a loadable record
\* of the session whose message list ends with that message, also when the
\* write to storage failed.
C2_AcknowledgedMessageIsDurable ==
    (ret.op = "add_message" /\ ret.value = TRUE) =>
        LET sv == LoadSession(disk[ret.sid])
        IN  /\ sv # NoSession
            /\ sv.messages # <<>>
            /\ sv.messages[Len(sv.messages)].timestamp = ret.stamp

(***************************************************************************)
(* Claims about the chunkers (checked under SpecChunk).                    *)
(***************************************************************************)
\* the positions of the text a window's slice covers
Covered(w) == w.lo .. (w.hi - 1)

\* C3: every window but the last is followed by a window that starts at its
\* end minus overlap; the two share exactly overlap characters of the text
\* and leave no position between them uncovered.
C3_NextWindowStartsAtEndMinusOverlap ==
    \A k \in 1..(Len(wins) - 1) :
        /\ wins[k + 1].s = wins[k].e - overlap
        /\ Cardinality(Covered(wins[k]) \cap Covered(wins[k + 1])) = overlap
        /\ wins[k + 1].lo <= wins[k].hi

\* the returned chunks with the position of their first character: the
\* windows whose chunk was appended, or the single chunk of the early return
Returned ==
    IF wins = <<>>
    THEN [i \in 1..Len(chunks) |-> [chunk |-> chunks[i], a |-> 0]]
    ELSE SelectSeq(wins, LAMBDA w : w.kept)

\* the part of a chunk before the position at which the next chunk starts
PartBefore(c, nextA) == SubSeq(c.chunk, 1, Min(Len(c.chunk), Max(0, nextA - c.a)))

RECURSIVE Reassemble(_)
Reassemble(cs) ==
    IF cs = <<>> THEN <<>>
    ELSE IF Len(cs) = 1 THEN cs[1].chunk
    ELSE PartBefore(cs[1], cs[2].a) \o Reassemble(Tail(cs))

\* C4: the parts of the returned chunks before their overlap with the next
\* chunk, concatenated in order, are the text: no character is dropped.
C4_ReassemblyIsLossless ==
    cpc = "done" => Reassemble(Returned) = text

\* C5: the window start strictly advances on every iteration of the loop.
C5_StartStrictlyAdvances ==
    [][(cpc = "loop" /\ wins' # wins) => start' > start]_vars

(***************************************************************************)
(* Claims about the queries of ConversationManager (checked under Spec).   *)
(***************************************************************************)
\* the session a completed call found, as the cache holds it
SessionOf(sid) == heap[cache[sid]]

\* C6: get_context_for_llm returns the last min(10, n) of the session's n
\* messages, in the order they were added, as role and content; before them
\* comes one system entry with the summary exactly when include_summary is
\* true and the summary is not empty, so there are never more than 11
\* entries; for the messages 'What is X?' (user) and 'X is Y.' (assistant)
\* and include_summary = False the result is exactly those two, in order.
C6_ContextIsSummaryPlusLastTen ==
    (ret.op = "get_context_for_llm" /\ ret.found) =>
        LET sv == SessionOf(ret.sid)
            n  == Len(sv.messages)
            m  == Min(10, n)
            v  == ret.value
            k  == Len(v) - m
        IN  /\ k \in {0, 1}
            /\ Len(v) <= 11
            /\ k = 1 <=> (ret.include_summary /\ sv.context_summary.kind # "empty")
            /\ k = 1 => /\ v[1].role = "system"
                        /\ v[1].content[2] = sv.context_summary
            /\ \A i \in 1..m :
                  v[k + i] = [role |-> sv.messages[n - m + i].role,
                              content |-> sv.messages[n - m + i].content]
            /\ faults = 0 => Stamps(sv) = stamped[ret.sid]
            /\ ( /\ ~ret.include_summary
                 /\ n = 2
                 /\ sv.messages[1].role = "user" /\ sv.messages[1].content = Question
                 /\ sv.messages[2].role = "assistant" /\ sv.messages[2].content = Answer )
               => v = << [role |-> "user", content |-> "What is X?"],
                         [role |-> "assistant", content |-> "X is Y."] >>

\* a context of a session of more than 10 messages, with its summary
C6_Witness ==
    /\ ret.op = "get_context_for_llm" /\ ret.found /\ ret.include_summary
    /\ Len(SessionOf(ret.sid).messages) > 10
    /\ Len(ret.value) = 11
    /\ ret.value[1].role = "system"

NotFoundValue(op) ==
    CASE op = "add_message" -> FALSE
      [] op = "update_session_settings" -> FALSE
      [] op = "get_conversation_history" -> <<>>
      [] op = "get_context_for_llm" -> <<>>

\* C8: get_session returns the cached session when the id is in the cache,
\* otherwise the session loaded from storage, which is then cached; for an
\* id in neither it returns None, and add_message, update_session_settings,
\* get_conversation_history and get_context_for_llm return False or the
\* empty list for such an id and leave the cache and storage without it.
C8_GetSessionCacheThenStorage ==
    /\ ret.op = "get_session" =>
          LET loaded == LoadSession(ret.file_before)
          IN  /\ ret.was_cached =>
                    /\ ret.found
                    /\ ret.value = ret.cached_before
                    /\ SessionOf(ret.sid) = ret.cached_before
              /\ (~ret.was_cached /\ loaded # NoSession) =>
                    /\ ret.found
                    /\ ret.value = loaded
                    /\ cache[ret.sid] # NoObj
                    /\ SessionOf(ret.sid) = loaded
              /\ (~ret.was_cached /\ loaded = NoSession) =>
                    /\ ~ret.found
                    /\ ret.value = NoSession
                    /\ cache[ret.sid] = NoObj
                    /\ disk[ret.sid] = ret.file_before
    /\ ( /\ ret.op \in {"add_message", "update_session_settings",
                        "get_conversation_history", "get_context_for_llm"}
         /\ ~ret.was_cached
         /\ LoadSession(ret.file_before) = NoSession )
       => /\ ~ret.found
          /\ ret.value = NotFoundValue(ret.op)
          /\ cache[ret.sid] = NoObj
          /\ disk[ret.sid] = ret.file_before

\* add_message for an id that is neither cached nor stored has returned
\* False
C8_Witness ==
    /\ ret.op = "add_message"
    /\ ~ret.was_cached /\ ret.file_before = NoFile
    /\ ret.value = FALSE
    /\ cache[ret.sid] = NoObj /\ disk[ret.sid] = NoFile

\* C9: list_sessions returns one entry for each session file that loads and
\* no other entry: a session that is only in the cache is not listed, and a
\* file that does not load is skipped without hiding the other sessions.
C9_ListSessionsListsLoadableFiles ==
    ret.op = "list_sessions" =>
        LET v == ret.value
            loadable == {s \in SessionIds : LoadSession(disk[s]) # NoSession}
        IN  /\ Len(v) = Cardinality(loadable)
            /\ {v[i].session_id : i \in 1..Len(v)} = loadable
            /\ \A i \in 1..Len(v) :
                  v[i] = ListEntry(LoadSession(disk[v[i].session_id]))
            /\ \A s \in ret.cached : disk[s] = NoFile =>
                  \A i \in 1..Len(v) : v[i].session_id # s

\* a listing of one stored session beside a session whose file is partial
\* and that is in the cache
C9_Witness ==
    /\ ret.op = "list_sessions"
    /\ Len(ret.value) = 1
    /\ \E s \in ret.cached : disk[s].kind = "partial"

(***************************************************************************)
(* Claims about search_documents (checked under SpecSearch).               *)
(***************************************************************************)
\* the position of item x in the list rs (the ids make the items distinct)
PositionIn(rs, x) == CHOOSE i \in 1..Len(rs) : rs[i] = x

\* item x of the merged list at position p ranks before item y at position q
RanksBefore(x, p, y, q) == x.score > y.score \/ (x.score = y.score /\ p < q)

\* C10: a search that the index answers returns the merged per-collection
\* results by score non-increasing, equal scores in merge order, cut to the
\* best k, and calls the embedding gateway once (one service call at most).
C10_SearchMergesSortsTruncates ==
    (sret.called /\ sret.available /\ ~sret.raised) =>
        LET r == sret.results
            m == sret.merged
        IN  /\ m = Merged(index, Len(index), sret.k)
            /\ Len(r) = Min(sret.k, Len(m))
            /\ \A i \in 1..Len(r) : \E p \in 1..Len(m) : m[p] = r[i]
            /\ \A i, j \in 1..Len(r) :
                  i < j => RanksBefore(r[i], PositionIn(m, r[i]), r[j], PositionIn(m, r[j]))
            /\ \A q \in 1..Len(m) :
                  (\A i \in 1..Len(r) : r[i] # m[q]) =>
                      \A i \in 1..Len(r) : RanksBefore(r[i], PositionIn(m, r[i]), m[q], q)
            /\ sret.gateway_calls = 1
            /\ sret.embed_calls = IF openai_client = "none" THEN 0 ELSE 1

\* a search over two collections whose results tie across the collections
\* and are cut to k
C10_Witness ==
    /\ sret.called /\ sret.available /\ ~sret.raised
    /\ Len(index) >= 2
    /\ openai_client = "ok" /\ sret.embed_calls = 1
    /\ Len(sret.merged) > sret.k
    /\ \E i, j \in 1..Len(sret.results) :
          /\ i < j
          /\ sret.results[i].score = sret.results[j].score
          /\ sret.results[i].content[1] # sret.results[j].content[1]

(***************************************************************************)
(* Claims about the reasoning dispatcher (checked under SpecDispatch).     *)
(***************************************************************************)
\* C16: dispatching a strategy name that is not registered returns
\* success = False with available_strategies containing generation,
\* self_ask and atomic_decomposition; the completion service is not called
\* and nothing is raised.
C16_UnknownStrategyIsReported ==
    (dret.op = "process_with_strategy"
       /\ dret.strategy_name \notin {"generation", "self_ask", "atomic_decomposition"})
    => /\ ~dret.raised
       /\ dret.value.success = FALSE
       /\ "available_strategies" \in DOMAIN dret.value
       /\ {"generation", "self_ask", "atomic_decomposition"}
             \subseteq Range(dret.value.available_strategies)
       /\ dret.llm_calls = 0

\* the strategy "nonexistent" was dispatched with a history and a context
C16_Witness ==
    /\ dret.op = "process_with_strategy"
    /\ dret.strategy_name = "nonexistent"
    /\ dret.history > 0 /\ dret.context > 0
    /\ dret.value.success = FALSE

\* C17: when the completion service raises while generation, self_ask or
\* atomic_decomposition processes a question, process_with_strategy returns
\* success = False with an answer that describes the error, and raises
\* nothing.
C17_CompletionFailureIsAResult ==
    (dret.op = "process_with_strategy"
       /\ dret.strategy_name \in {"generation", "self_ask", "atomic_decomposition"}
       /\ dret.fail = "llm")
    => /\ ~dret.raised
       /\ dret.value.success = FALSE
       /\ "answer" \in DOMAIN dret.value
       /\ dret.value.answer[2] = ServiceError

\* the completion service raised in a self_ask call that had sent it the
\* last 3 messages of the history and the prompt
C17_Witness ==
    /\ dret.op = "process_with_strategy"
    /\ dret.strategy_name = "self_ask"
    /\ dret.fail = "llm" /\ dret.llm_calls = 1
    /\ dret.history > 3 /\ Len(dret.llm_messages) = 4
    /\ dret.value.success = FALSE

(***************************************************************************)
(* Claims about ingestion and the vector index (checked under SpecIngest). *)
(***************************************************************************)
Ingested == iret.op \in {"process_document", "process_uploaded_file"}
EntriesOf(name) == store[name].entries

\* C11: a query against a collection that was never created is reported as
\* an error the caller can tell from the empty result of an existing
\* collection (it raises or returns something other than the empty list); a
\* query against an existing collection without entries returns the empty
\* list and no error.
C11_MissingCollectionIsNotFound ==
    iret.op = "search_knowledge_base" =>
        /\ iret.missing => (iret.raised \/ iret.value # <<>>)
        /\ (~iret.missing /\ iret.matches = 0) => (~iret.raised /\ iret.value = <<>>)

C13_EmbeddingFailureDoesNotAbortIngestion ==
    ( /\ iret.op = "process_document"
      /\ openai_client = "raises" /\ chroma_client
      /\ ~Rejected(iret.text) /\ iret.chunks # <<>>
      /\ ~iret.index_raised )
    => /\ iret.value.success
       /\ iret.value.chunks = Len(iret.chunks)
       /\ iret.value.chunks # 0
       /\ \A i \in 1..Len(iret.chunks) :
             \E k \in 1..Len(EntriesOf(iret.collection)) :
                /\ EntriesOf(iret.collection)[k].id = iret.ids[i]
                /\ EntriesOf(iret.collection)[k].vector = [kind |-> "zero", dim |-> 1536]

\* a document of two chunks was ingested while the service raised
C13_Witness ==
    /\ iret.op = "process_document"
    /\ openai_client = "raises" /\ chroma_client
    /\ Len(iret.chunks) = 2 /\ iret.embed_calls = 1
    /\ iret.value.success
    /\ Len(EntriesOf(iret.collection)) = 2

\* C14: when the embedding service fails for some chunks of a document, the
\* chunks whose call succeeded are indexed with the service's embedding of
\* them.
C14_PartialFailureKeepsRealVectors ==
    ( /\ iret.op = "process_document"
      /\ openai_client = "ok" /\ chroma_client
      /\ ~Rejected(iret.text)
      /\ Ids(iret.before[iret.collection].entries) \cap Range(iret.ids) = {} )
    => \A i \in 1..Len(iret.chunks) :
          (i <= iret.embed_calls /\ i # iret.fail_at) =>
             \E k \in 1..Len(EntriesOf(iret.collection)) :
                /\ EntriesOf(iret.collection)[k].id = iret.ids[i]
                /\ EntriesOf(iret.collection)[k].vector =
                      [kind |-> "embedding", of |-> iret.chunks[i]]

\* C15: get_embeddings(texts) returns len(texts) vectors on every path, and
\* when the service answers every call, the i-th vector is the service's
\* embedding of the first 8000 characters of texts[i].
C15_OneVectorPerTextInOrder ==
    /\ iret.op = "get_embeddings" =>
          /\ ~iret.raised
          /\ Len(iret.value) = Len(iret.texts)
          /\ (openai_client = "ok" /\ iret.fail_at \notin 1..Len(iret.texts)) =>
                \A i \in 1..Len(iret.texts) :
                    iret.value[i] =
                        [kind |-> "embedding",
                         of |-> [id |-> iret.texts[i].id,
                                 len |-> Min(iret.texts[i].len, 8000)]]
          /\ openai_client # "ok" =>
                \A i \in 1..Len(iret.texts) : iret.value[i].kind = "zero"
    /\ (iret.op = "process_document" /\ chroma_client /\ ~Rejected(iret.text)) =>
          Len(iret.vectors) = Len(iret.chunks)

\* the service embedded two different texts, one of them longer than 8000
\* characters
C15_Witness ==
    /\ iret.op = "get_embeddings"
    /\ openai_client = "ok" /\ iret.embed_calls = 2
    /\ Len(iret.texts) = 2 /\ iret.texts[1].len > 8000 /\ iret.texts[2].len < 8000
    /\ iret.value[1].of.len = 8000
    /\ iret.value[2].of = iret.texts[2]

\* C18: a .doc document is rejected without a reader being run on it:
\* ingestion reports failure, and nothing is chunked or indexed.
C18_LegacyDocIsRejected ==
    (Ingested /\ iret.file_type = "doc")
    => /\ ~iret.extract_attempted
       /\ ~iret.raised
       /\ iret.value.success = FALSE
       /\ iret.chunks = <<>>
       /\ store = iret.before

\* C19: for a document that is empty or has no readable text the reader
\* returns the 'no readable text' sentinel without raising, and ingestion
\* makes no chunk and adds no entry to the index.
C19_NoReadableTextShortCircuits ==
    ( /\ Ingested
      /\ iret.file_type \in {"txt", "pdf", "docx"}
      /\ iret.upload.content \in {"empty", "blank", "blank_long"} )
    => /\ ~iret.raised
       /\ iret.text.kind = "sentinel"
       /\ iret.chunks = <<>>
       /\ store = iret.before

(***************************************************************************)
(* The concrete scenario of the chunker (checked under SpecScenarioA).     *)
(***************************************************************************)
\* C20: a document of 2500 characters split with chunk_size 1000 and
\* overlap 200 gives exactly 3 chunks, the first starts at offset 0 and
\* each chunk shares at least 190 characters with the next, wherever the
\* sentence terminators of the document are.
C20_ScenarioAYieldsThreeChunks ==
    (cpc = "done" /\ Len(text) = 2500 /\ chunk_size = 1000 /\ overlap = 200)
    => /\ Len(chunks) = 3
       /\ wins[1].a = 0
       /\ \A i \in 1..(Len(wins) - 1) : wins[i].hi - wins[i + 1].lo >= 190

(***************************************************************************)
(* Claims about the summary of a session (checked under Spec).             *)
(***************************************************************************)
\* the object o is a session that this step appends one message to
AppendsTo(o) ==
    /\ heap[o] # NoSession /\ heap'[o] # NoSession
    /\ heap'[o].session_id = heap[o].session_id
    /\ Len(heap'[o].messages) = Len(heap[o].messages) + 1

\* C21: an add_message changes context_summary only when it brings the
\* number of messages to a multiple of 10, and it changes nothing but the
\* summary besides the message it appends and last_updated.
C21_SummaryOnEveryTenthMessage ==
    [][\A o \in ObjIds :
          AppendsTo(o) =>
             /\ heap'[o].context_summary # heap[o].context_summary
                   => Len(heap'[o].messages) % 10 = 0
             /\ SubSeq(heap'[o].messages, 1, Len(heap[o].messages)) = heap[o].messages
             /\ heap'[o].reasoning_strategy = heap[o].reasoning_strategy
             /\ heap'[o].knowledge_base = heap[o].knowledge_base]_vars

(***************************************************************************)
(* Claims about the cut of a window (checked under SpecChunk).             *)
(***************************************************************************)
\* the characters that end a sentence: '.', '!', '?' and the newline
SentenceTerminators == {".", "!", "?", "\n"}

\* the boundary of the window w before it is adjusted
Boundary(w) == w.s + chunk_size

\* the indices the backward scan of the window w looks at
Scanned(w) ==
    (Max(Boundary(w) - ScanBack(impl), w.s) + 1) .. Min(Boundary(w), Len(text) - 1)

\* C22: when the boundary of a window falls before the end of the text, a
\* cut that was moved is immediately after a '.', '!', '?' or newline, and a
\* cut that was not moved has no such character in the scanned range.
C22_CutAfterSentenceTerminator ==
    \A k \in 1..Len(wins) :
        Boundary(wins[k]) < Len(text) =>
            /\ wins[k].e # Boundary(wins[k])
                  => PyIndex(text, wins[k].e - 1) \in SentenceTerminators
            /\ wins[k].e = Boundary(wins[k])
                  => \A i \in Scanned(wins[k]) : PyIndex(text, i) \notin SentenceTerminators

\* C23: every window spans at most chunk_size characters; the adjustment
\* moves the cut backward from the boundary by at most min(200, chunk_size)
\* characters and never past the boundary.
C23_WindowWithinChunkSize ==
    \A k \in 1..Len(wins) :
        /\ wins[k].e - wins[k].s <= chunk_size
        /\ wins[k].e <= Boundary(wins[k])
        /\ wins[k].e >= Boundary(wins[k]) - Min(200, chunk_size)

\* C24: a text of at most chunk_size characters is returned as exactly one
\* chunk that is the whole text, the empty text and a text of whitespace
\* included.
C24_ShortTextIsOneChunk ==
    (cpc = "done" /\ Len(text) <= chunk_size) => chunks = <<text>>

(***************************************************************************)
(* Claims about the messages sent to the completion service (checked       *)
(* under SpecDispatch).                                                    *)
(***************************************************************************)
\* the number of history messages a strategy may send
HistoryWindow(strategy_name) == IF strategy_name = "generation" THEN 5 ELSE 3

\* C25: the messages sent to the completion service are the last 5
\* (generation) or the last 3 (self_ask, atomic_decomposition) messages of
\* the history, or all of them when there are fewer, in their order, then
\* the prompt for the question, which is built from the context list given;
\* generation puts one system message before the history messages.
C25_HistoryWindowPerStrategy ==
    (dret.op = "process_with_strategy" /\ dret.llm_calls = 1)
    => LET hist == [i \in 1..dret.history |->
                      [role |-> IF i % 2 = 1 THEN "user" ELSE "assistant", content |-> i]]
           k    == Min(HistoryWindow(dret.strategy_name), dret.history)
           sent == dret.llm_messages
           lead == IF dret.strategy_name = "generation" /\ k > 0 THEN 1 ELSE 0
       IN  /\ Len(sent) = lead + k + 1
           /\ \A j \in 1..k : sent[lead + j] = hist[dret.history - k + j]
           /\ lead = 1 => sent[1].role = "system"
           /\ sent[Len(sent)].role = "user"
           /\ sent[Len(sent)].content[2] = Question
           /\ sent[Len(sent)].content[3] = [i \in 1..dret.context |-> <<"document", i>>]

\* generation answered a question with a history of more than 5 messages
\* and a retrieved document
C25_Witness ==
    /\ dret.op = "process_with_strategy"
    /\ dret.strategy_name = "generation"
    /\ dret.fail = "none" /\ dret.llm_calls = 1
    /\ dret.history > 5 /\ dret.context > 0
    /\ Len(dret.llm_messages) = 7
    /\ dret.llm_messages[2].content = dret.history - 4
    /\ dret.value.success

(***************************************************************************)
(* Claims about the question-answering flow (checked under SpecAsk).       *)
(***************************************************************************)
\* the messages ms as get_context_for_llm formats them
AsContext(ms) == [i \in 1..Len(ms) |-> [role |-> ms[i].role, content |-> ms[i].content]]

\* C26: the history handed to the reasoning dispatcher is the history of
\* the session as it was before the request, without the current question;
\* when the dispatcher is called the session has no message of the current
\* turn yet, and after the request the session has the earlier messages,
\* then the user question, then the assistant answer if one was added.
C26_HistoryLoadedBeforeTurnAppended ==
    (aret.op = "ask_question" /\ aret.found /\ aret.dispatched)
    => /\ aret.history = AsContext(aret.before)
       /\ aret.at_dispatch = aret.before
       /\ Len(aret.after) \in {Len(aret.before) + 1, Len(aret.before) + 2}
       /\ SubSeq(aret.after, 1, Len(aret.before)) = aret.before
       /\ aret.after[Len(aret.before) + 1].role = "user"
       /\ aret.after[Len(aret.before) + 1].content = aret.question
       /\ Len(aret.after) = Len(aret.before) + 2
             => aret.after[Len(aret.before) + 2].role = "assistant"

(***************************************************************************)
(* Claims about deletion (checked under SpecDelete).                       *)
(***************************************************************************)
\* C27: once delete_session(id) has returned True, and until another call
\* returns, the session has no file and no cache entry, whatever the other
\* request thread is doing.
C27_DeletedSessionStaysDeleted ==
    (ret.op = "delete_session" /\ ret.value = TRUE)
    => /\ disk[ret.sid] = NoFile
       /\ cache[ret.sid] = NoObj

(***************************************************************************)
(* More claims about ingestion and search (checked under SpecIngest and    *)
(* SpecSearch).                                                            *)
(***************************************************************************)
\* the ids among want that the collection name holds
Held(name, want) == {id \in want : \E k \in 1..Len(store[name].entries) :
                                       store[name].entries[k].id = id}

\* C28: when process_uploaded_file returns success = True with
\* chunks_count = n, the collection holds the n entries of the document;
\* when adding the chunks to the index failed, it returns success = False.
C28_UploadSuccessMeansIndexed ==
    iret.op = "process_uploaded_file" =>
        /\ iret.value.success =>
              /\ Len(iret.ids) = iret.value.chunks_count
              /\ Cardinality(Held(iret.collection, Range(iret.ids))) = iret.value.chunks_count
        /\ ("index_raised" \in DOMAIN iret /\ iret.index_raised) => ~iret.value.success

\* the index without the collection whose query failed
OtherCollections ==
    [c \in 1..Len(index) |-> IF c = sret.fail_at THEN <<>> ELSE index[c]]

\* C29: search_documents returns items of entries of the index only: no
\* item when the index is unavailable, and when the query of one
\* collection fails no error item but the results of the other
\* collections.
C29_SearchReturnsOnlyEntries ==
    sret.called =>
        /\ ~sret.available => sret.results = <<>>
        /\ (sret.available /\ sret.raised)
              => /\ sret.results # SearchError
                 /\ sret.fail_at > 0 =>
                       Len(sret.results)
                          = Min(sret.k, Len(Merged(OtherCollections, Len(index), sret.k)))

\* C30: the ingestion of a plain-text file with readable text makes chunks
\* of the text whatever its first word is, and when the index takes them
\* it succeeds and the collection holds the chunks.
C30_ReadableTextIsIngested ==
    ( /\ iret.op = "process_document"
      /\ iret.file_type = "txt"
      /\ iret.upload.content \in {"short", "long", "error_report"} )
    => /\ iret.text.kind = "content"
       /\ iret.chunks # <<>>
       /\ (chroma_client /\ openai_client # "raises" /\ ~iret.index_raised)
             => /\ iret.value.success
                /\ Held(iret.collection, Range(iret.ids)) = Range(iret.ids)

====
